---- MODULE Spec2Model ----
(***************************************************************************)
(* Model of the listing-enrichment service (daft-scraper-api): price       *)
(* parsing and rating, point-of-interest scoring, the crime-statistics     *)
(* cube resolver, the safety score and the orchestration of the stages.    *)
(*                                                                         *)
(* Conventions                                                             *)
(*   - a Go string is a sequence of one-character strings;                 *)
(*   - a float64 is an exact rational [n |-> numerator, d |-> denominator] *)
(*     in lowest terms with d > 0 (rounding of the binary format is not    *)
(*     modelled);                                                          *)
(*   - a distance is an integer number of metres (the Go value is km).     *)
(***************************************************************************)
EXTENDS Integers, Sequences, FiniteSets, TLC

VARIABLES
    pc,         \* position of the running request / function under study
    arg,        \* input of the operation under study
    ret,        \* value returned by the operation under study
    property,   \* the PropertyInfo record being enriched
    analysis,   \* the AnalysisResponse record (safety part)
    env,        \* responses of the external collaborators for this run
    trace       \* stages attempted so far, in order, with their outcome

vars == <<pc, arg, ret, property, analysis, env, trace>>

(***************************************************************************)
(* Bounds                                                                  *)
(***************************************************************************)
MaxTextLen == 4

\* prices are enumerated in tenths of a currency unit, 0 .. MaxPriceTenths
MaxPriceTenths == 1300

\* longest amenity / entertainment list drawn as an input
MaxPOI == 6

\* most places one station search returns
MaxStations == 2

\* categories of the region and of the year dimension of a generated cube
MaxRegions == 3

MaxYears == 2

\* lighting ratings are drawn from -2 * MaxLighting .. MaxLighting
MaxLighting == 20

\* most Garda stations one search returns
MaxGardai == 2

(***************************************************************************)
(* Integer helpers                                                         *)
(***************************************************************************)
Abs(x) == IF x < 0 THEN -x ELSE x

RECURSIVE GCD(_, _)
GCD(a, b) == IF b = 0 THEN a ELSE GCD(b, a % b)

RECURSIVE Pow10(_)
Pow10(k) == IF k = 0 THEN 1 ELSE 10 * Pow10(k - 1)

min(a, b) == IF a < b THEN a ELSE b

max(a, b) == IF a > b THEN a ELSE b

(***************************************************************************)
(* float64 as exact rationals                                              *)
(***************************************************************************)
Rat(n, d) ==
    LET s == IF d < 0 THEN -1 ELSE 1
        g == GCD(Abs(n), Abs(d))
    IN  [n |-> (s * n) \div g, d |-> (s * d) \div g]

RInt(k) == [n |-> k, d |-> 1]

RZero == RInt(0)

RAdd(a, b) == Rat(a.n * b.d + b.n * a.d, a.d * b.d)

RSub(a, b) == Rat(a.n * b.d - b.n * a.d, a.d * b.d)

RMul(a, b) == Rat(a.n * b.n, a.d * b.d)

\* b # 0
RDiv(a, b) == Rat(a.n * b.d, a.d * b.n)

RLt(a, b) == a.n * b.d < b.n * a.d

RGeq(a, b) == a.n * b.d >= b.n * a.d

RGt(a, b) == a.n * b.d > b.n * a.d

\* Go's int(x): truncation toward zero
RTrunc(a) == IF a.n >= 0 THEN a.n \div a.d ELSE -((-a.n) \div a.d)

(***************************************************************************)
(* Strings                                                                 *)
(***************************************************************************)
Digits == {"0", "1", "2", "3", "4", "5", "6", "7", "8", "9"}

DigitVal(c) ==
    CASE c = "0" -> 0 [] c = "1" -> 1 [] c = "2" -> 2 [] c = "3" -> 3
      [] c = "4" -> 4 [] c = "5" -> 5 [] c = "6" -> 6 [] c = "7" -> 7
      [] c = "8" -> 8 [] c = "9" -> 9

\* unicode.IsSpace restricted to the white space the model uses
IsSpace(c) == c \in {" ", "\t", "\n"}

RECURSIVE TrimLeft(_)
TrimLeft(s) ==
    IF s # <<>> /\ IsSpace(Head(s)) THEN TrimLeft(Tail(s)) ELSE s

RECURSIVE TrimRight(_)
TrimRight(s) ==
    IF s # <<>> /\ IsSpace(s[Len(s)])
    THEN TrimRight(SubSeq(s, 1, Len(s) - 1))
    ELSE s

\* strings.TrimSpace
TrimSpace(s) == TrimRight(TrimLeft(s))

\* strings.ReplaceAll for a non-empty old: left to right, non-overlapping
RECURSIVE ReplaceAll(_, _, _)
ReplaceAll(s, old, new) ==
    IF Len(s) < Len(old) THEN s
    ELSE IF SubSeq(s, 1, Len(old)) = old
         THEN new \o ReplaceAll(SubSeq(s, Len(old) + 1, Len(s)), old, new)
         ELSE <<Head(s)>> \o ReplaceAll(Tail(s), old, new)

\* strings.HasPrefix
HasPrefix(s, p) == Len(s) >= Len(p) /\ SubSeq(s, 1, Len(p)) = p

\* strings.Contains
Contains(s, sub) ==
    \E i \in 1..(Len(s) - Len(sub) + 1) : SubSeq(s, i, i + Len(sub) - 1) = sub

\* the longest prefix of s made of digits
RECURSIVE DigitRun(_)
DigitRun(s) ==
    IF s # <<>> /\ Head(s) \in Digits
    THEN <<Head(s)>> \o DigitRun(Tail(s))
    ELSE <<>>

\* value of a digit string read in base 10
RECURSIVE DecVal(_)
DecVal(ds) ==
    IF ds = <<>> THEN 0
    ELSE 10 * DecVal(SubSeq(ds, 1, Len(ds) - 1)) + DigitVal(ds[Len(ds)])

\* regexp ^[0-9]+(?:\.[0-9]+)? : the match as <<integer digits, fraction digits>>,
\* <<>> for the integer digits when there is no match
PriceMatch(s) ==
    LET ip   == DigitRun(s)
        rest == SubSeq(s, Len(ip) + 1, Len(s))
        fp   == IF rest # <<>> /\ Head(rest) = "." THEN DigitRun(Tail(rest)) ELSE <<>>
    IN  <<ip, fp>>

\* strconv.ParseFloat of a matched "digits[.digits]"
ParseFloat(m) == Rat(DecVal(m[1] \o m[2]), Pow10(Len(m[2])))

(***************************************************************************)
(* PriceAnalyzer: extractPriceValue                                        *)
(***************************************************************************)
extractPriceValue(price) ==
    LET p0 == TrimSpace(price)
        p1 == ReplaceAll(p0, <<"€">>, <<>>)
        p2 == ReplaceAll(p1, <<",">>, <<>>)
        p3 == ReplaceAll(p2, <<" ">>, <<>>)
        m  == PriceMatch(p3)
    IN  IF m[1] = <<>> THEN RZero ELSE ParseFloat(m)

\* the text with every currency symbol, comma and space removed
StripSeparators(s) ==
    ReplaceAll(ReplaceAll(ReplaceAll(s, <<"€">>, <<>>), <<",">>, <<>>), <<" ">>, <<>>)

\* fmt of a non-negative integer in base 10
RECURSIVE FormatInt(_)
FormatInt(k) ==
    LET d == <<"0", "1", "2", "3", "4", "5", "6", "7", "8", "9">>[(k % 10) + 1]
    IN  IF k < 10 THEN <<d>> ELSE FormatInt(k \div 10) \o <<d>>

\* a listing's price text for a price given in tenths, e.g. 8505 -> "€850.5"
PriceText(tenths) ==
    <<"€">> \o FormatInt(tenths \div 10)
        \o (IF tenths % 10 = 0 THEN <<>> ELSE <<".">> \o FormatInt(tenths % 10))

(***************************************************************************)
(* Records: Go zero values                                                 *)
(***************************************************************************)
PropertyZero ==
    [ Address          |-> <<>>,
      RentPrice        |-> <<>>,
      Coordinates      |-> [Lat |-> 0, Lng |-> 0],
      CrimeRate        |-> RZero,
      SafetyRating     |-> 0,
      NearbyGardai     |-> <<>>,
      StreetLighting   |-> <<>>,
      TransportScore   |-> 0,
      PublicTransport  |-> <<>>,
      Amenities        |-> <<>>,
      Entertainment    |-> <<>>,
      WalkScore        |-> 0,
      AreaAveragePrice |-> RZero,
      PriceRating      |-> 0,
      PriceHistory     |-> <<>>,
      Similar          |-> <<>> ]

CrimeStatsZero == [Total |-> 0, PerCapita |-> RZero, Breakdown |-> <<>>]

AnalysisZero ==
    [ CrimeStats     |-> CrimeStatsZero,
      NearbyGardai   |-> <<>>,
      LightingRating |-> 0,
      LightingDesc   |-> <<>>,
      SafetyScore    |-> 0,
      SafetyFactors  |-> <<>>,
      RiskFactors    |-> <<>> ]

NoValue == [none |-> TRUE]

(***************************************************************************)
(* PriceAnalyzer: calculatePriceRating                                     *)
(***************************************************************************)
\* priceDiff := ((avgPrice - currentPrice) / avgPrice) * 100, avgPrice # 0
PriceDiff_Flipped(avgPrice, currentPrice) ==
    RMul(RDiv(RSub(currentPrice, avgPrice), avgPrice), RInt(100))

PriceDiff(avgPrice, currentPrice) ==
    RMul(RDiv(RSub(avgPrice, currentPrice), avgPrice), RInt(100))

\* the switch over priceDiff
PriceBand_Strict(priceDiff) ==
    CASE RGt(priceDiff, RInt(20))   -> 10
      [] RGt(priceDiff, RInt(15))   -> 9
      [] RGt(priceDiff, RInt(10))   -> 8
      [] RGt(priceDiff, RInt(5))    -> 7
      [] RGt(priceDiff, RInt(0))    -> 6
      [] RGt(priceDiff, RInt(-5))   -> 5
      [] RGt(priceDiff, RInt(-10))  -> 4
      [] RGt(priceDiff, RInt(-15))  -> 3
      [] RGt(priceDiff, RInt(-20))  -> 2
      [] OTHER                      -> 1

PriceBand(priceDiff) ==
    IF RGeq(priceDiff, RInt(20)) THEN 10
    ELSE IF RGeq(priceDiff, RInt(15)) THEN 9
    ELSE IF RGeq(priceDiff, RInt(10)) THEN 8
    ELSE IF RGeq(priceDiff, RInt(5)) THEN 7
    ELSE IF RGeq(priceDiff, RInt(0)) THEN 6
    ELSE IF RGeq(priceDiff, RInt(-5)) THEN 5
    ELSE IF RGeq(priceDiff, RInt(-10)) THEN 4
    ELSE IF RGeq(priceDiff, RInt(-15)) THEN 3
    ELSE IF RGeq(priceDiff, RInt(-20)) THEN 2
    ELSE 1

calculatePriceRating_SkipUnpriced(p) ==
    IF p.AreaAveragePrice = RZero \/ extractPriceValue(p.RentPrice) = RZero THEN p
    ELSE LET currentPrice == extractPriceValue(p.RentPrice)
             avgPrice     == p.AreaAveragePrice
         IN  [p EXCEPT !.PriceRating = PriceBand(PriceDiff(avgPrice, currentPrice))]

calculatePriceRating(p) ==
    IF p.AreaAveragePrice = RZero THEN p
    ELSE LET currentPrice == extractPriceValue(p.RentPrice)
             avgPrice     == p.AreaAveragePrice
         IN  [p EXCEPT !.PriceRating = PriceBand(PriceDiff(avgPrice, currentPrice))]

(***************************************************************************)
(* POIScorer                                                               *)
(* A place returned by the place search is [Name, Types, Dist]: Dist is    *)
(* the distance in metres from the property to the place.                  *)
(***************************************************************************)
\* calculateDistance(location, place.Geometry.Location), in metres
distanceTo(place) == place.Dist

\* int(dist * 1000 / 80) for dist in km
walkMinutes(metres) == metres \div 80

\* the POI built from one station
stationPOI(station) ==
    [ Name     |-> station.Name,
      Type     |-> IF Len(station.Types) > 0 THEN station.Types[1] ELSE "",
      Distance |-> distanceTo(station),
      Duration |-> walkMinutes(distanceTo(station)) ]

\* the POI built from one place of an amenity or entertainment search
placePOI(place, placeType) ==
    [ Name     |-> place.Name,
      Type     |-> placeType,
      Distance |-> distanceTo(place),
      Duration |-> walkMinutes(distanceTo(place)) ]

MapSeq(f(_), s) == [i \in 1..Len(s) |-> f(s[i])]

\* the score computed from the recorded stations
transportScore_Nearest(stations) ==
    LET nearest == CHOOSE i \in 1..Len(stations) :
                       \A j \in 1..Len(stations) :
                           stations[i].Distance <= stations[j].Distance
    IN  5 + (IF Len(stations) > 0
             THEN (IF stations[nearest].Distance < 500 THEN 3
                   ELSE IF stations[nearest].Distance < 1000 THEN 2 ELSE 0)
                  + (IF Len(stations) > 1 THEN 2 ELSE 0)
             ELSE 0)

transportScore(stations) ==
    5 + (IF Len(stations) > 0
         THEN (IF stations[1].Distance < 500 THEN 3
               ELSE IF stations[1].Distance < 1000 THEN 2 ELSE 0)
              + (IF Len(stations) > 1 THEN 2 ELSE 0)
         ELSE 0)

\* findPublicTransport: search maps a place type to [err, results];
\* the result is [err, property]
findPublicTransport(p, search) ==
    IF search["train_station"].err THEN [err |-> TRUE, property |-> p]
    ELSE IF search["bus_station"].err THEN [err |-> TRUE, property |-> p]
    ELSE LET found    == search["train_station"].results \o search["bus_station"].results
             stations == p.PublicTransport \o MapSeq(stationPOI, found)
         IN  [ err      |-> FALSE,
               property |-> [p EXCEPT !.PublicTransport = stations,
                                      !.TransportScore = transportScore(stations)] ]

\* number of POIs of a list closer than 1.0 km
RECURSIVE nearby(_)
nearby(pois) ==
    IF pois = <<>> THEN 0
    ELSE (IF Head(pois).Distance < 1000 THEN 1 ELSE 0) + nearby(Tail(pois))

\* the final clamp of calculateWalkScore
walkClamp_None(score) == score

walkClamp(score) == min(max(score, 0), 100)

calculateWalkScore_Uncapped(p) ==
    LET amenitiesNearby     == nearby(p.Amenities)
        entertainmentNearby == nearby(p.Entertainment)
        score == 50 + amenitiesNearby * 5 + entertainmentNearby * 5
                    + (IF p.TransportScore >= 7 THEN 10
                       ELSE IF p.TransportScore >= 5 THEN 5 ELSE 0)
    IN  [p EXCEPT !.WalkScore = walkClamp(score)]

calculateWalkScore(p) ==
    LET amenitiesNearby     == nearby(p.Amenities)
        entertainmentNearby == nearby(p.Entertainment)
        score == 50 + min(amenitiesNearby * 5, 25) + min(entertainmentNearby * 5, 25)
                    + (IF p.TransportScore >= 7 THEN 10
                       ELSE IF p.TransportScore >= 5 THEN 5 ELSE 0)
    IN  [p EXCEPT !.WalkScore = walkClamp(score)]

(***************************************************************************)
(* SafetyScoreComposer: calculateSafetyScore                               *)
(***************************************************************************)
safetyFactors(a) ==
    (IF Len(a.NearbyGardai) > 0 THEN <<"Garda station within reach">> ELSE <<>>)
        \o (IF a.LightingRating >= 7 THEN <<"Well-lit streets">> ELSE <<>>)

\* PerCapita > 0.02
riskFactors_AtLeast(a) ==
    IF RGeq(a.CrimeStats.PerCapita, Rat(2, 100))
    THEN <<"Above average crime rate">> ELSE <<>>

riskFactors(a) ==
    IF RGt(a.CrimeStats.PerCapita, Rat(2, 100))
    THEN <<"Above average crime rate">> ELSE <<>>

calculateSafetyScore(a) ==
    LET sf    == safetyFactors(a)
        rf    == riskFactors(a)
        score == 70 + Len(sf) * 5 - Len(rf) * 10 + a.LightingRating * 2
    IN  [a EXCEPT !.SafetyFactors = sf,
                  !.RiskFactors = rf,
                  !.SafetyScore = IF score < 1 THEN 1
                                  ELSE IF score > 100 THEN 100 ELSE score]

(***************************************************************************)
(* CrimeStatsResolver                                                      *)
(***************************************************************************)
UpperLetters ==
    <<"A", "B", "C", "D", "E", "F", "G", "H", "I", "J", "K", "L", "M",
      "N", "O", "P", "Q", "R", "S", "T", "U", "V", "W", "X", "Y", "Z">>

LowerLetters ==
    <<"a", "b", "c", "d", "e", "f", "g", "h", "i", "j", "k", "l", "m",
      "n", "o", "p", "q", "r", "s", "t", "u", "v", "w", "x", "y", "z">>

LowerChar(c) ==
    IF \E i \in 1..26 : UpperLetters[i] = c
    THEN LowerLetters[CHOOSE i \in 1..26 : UpperLetters[i] = c]
    ELSE c

UpperChar(c) ==
    IF \E i \in 1..26 : LowerLetters[i] = c
    THEN UpperLetters[CHOOSE i \in 1..26 : LowerLetters[i] = c]
    ELSE c

\* strings.ToLower, strings.ToUpper
ToLower(s) == [i \in 1..Len(s) |-> LowerChar(s[i])]

ToUpper(s) == [i \in 1..Len(s) |-> UpperChar(s[i])]

\* the replacements of normalize, in order ("<en-dash>" and "<em-dash>" stand
\* for the characters U+2013 and U+2014)
NormalizeSteps ==
    << <<<<".">>, <<>>>>, <<<<",">>, <<>>>>, <<<<"-">>, <<>>>>, <<<<"<en-dash>">>, <<>>>>,
       <<<<"<em-dash>">>, <<>>>>, <<<<"(">>, <<>>>>, <<<<")">>, <<>>>>,
       <<<<"d", "i", "v", "i", "s", "i", "o", "n">>, <<>>>>,
       <<<<" ", " ">>, <<" ">>>> >>

RECURSIVE applySteps(_, _)
applySteps(s, steps) ==
    IF steps = <<>> THEN s
    ELSE applySteps(ReplaceAll(s, Head(steps)[1], Head(steps)[2]), Tail(steps))

normalize(s) == TrimSpace(applySteps(ToLower(s), NormalizeSteps))

DMR_Northern == <<"D", ".", "M", ".", "R", ".", " ", "N", "o", "r", "t", "h", "e", "r", "n", " ", "D", "i", "v", "i", "s", "i", "o", "n">>

DMR_NorthCentral == <<"D", ".", "M", ".", "R", ".", " ", "N", "o", "r", "t", "h", " ", "C", "e", "n", "t", "r", "a", "l", " ", "D", "i", "v", "i", "s", "i", "o", "n">>

DMR_Southern == <<"D", ".", "M", ".", "R", ".", " ", "S", "o", "u", "t", "h", "e", "r", "n", " ", "D", "i", "v", "i", "s", "i", "o", "n">>

DMR_SouthCentral == <<"D", ".", "M", ".", "R", ".", " ", "S", "o", "u", "t", "h", " ", "C", "e", "n", "t", "r", "a", "l", " ", "D", "i", "v", "i", "s", "i", "o", "n">>

DMR_Eastern == <<"D", ".", "M", ".", "R", ".", " ", "E", "a", "s", "t", "e", "r", "n", " ", "D", "i", "v", "i", "s", "i", "o", "n">>

DMR_Western == <<"D", ".", "M", ".", "R", ".", " ", "W", "e", "s", "t", "e", "r", "n", " ", "D", "i", "v", "i", "s", "i", "o", "n">>

\* approximate population of a division
pop_Normalised(div) ==
    CASE normalize(div) = normalize(DMR_Northern)     -> 180000
      [] normalize(div) = normalize(DMR_NorthCentral) -> 300000
      [] normalize(div) = normalize(DMR_Southern)     -> 200000
      [] normalize(div) = normalize(DMR_SouthCentral) -> 280000
      [] normalize(div) = normalize(DMR_Eastern)      -> 260000
      [] normalize(div) = normalize(DMR_Western)      -> 220000
      [] OTHER                                        -> 0

pop(div) ==
    CASE div = DMR_Northern     -> 180000
      [] div = DMR_NorthCentral -> 300000
      [] div = DMR_Southern     -> 200000
      [] div = DMR_SouthCentral -> 280000
      [] div = DMR_Eastern      -> 260000
      [] div = DMR_Western      -> 220000
      [] OTHER                  -> 100000

\* the words that make a dimension label a region label, a year label
RegionWords == {<<"g", "a", "r", "d", "a">>, <<"d", "i", "v", "i", "s", "i", "o", "n">>, <<"s", "t", "a", "t", "i", "o", "n">>, <<"a", "r", "e", "a">>, <<"r", "e", "g", "i", "o", "n">>}

YearWords == {<<"y", "e", "a", "r">>, <<"t", "i", "m", "e">>, <<"p", "e", "r", "i", "o", "d">>}

RegionPrefixes == {<<"C", "0">>, <<"S", "T", "A", "T", "I", "S", "T", "I", "C">>, <<"R", "E", "G", "I", "O", "N">>, <<"A", "R", "E", "A">>}

YearPrefixes == {<<"T", "I", "M", "E">>, <<"Y", "E", "A", "R">>, <<"P", "E", "R", "I", "O", "D">>}

regionLabel(l) == \E w \in RegionWords : Contains(l, w)

yearLabel(l) == \E w \in YearWords : Contains(l, w)

regionKeyName(k) == \E q \in RegionPrefixes : HasPrefix(k, q)

yearKeyName(k) ==
    HasPrefix(ToUpper(k), <<"T", "L", "I", "S", "T">>) \/ \E q \in YearPrefixes : HasPrefix(k, q)

\* the first element of the enumeration ord satisfying P, <<>> (the empty string) if none
FirstIn(ord, P(_)) ==
    IF \E i \in 1..Len(ord) : P(ord[i])
    THEN ord[CHOOSE i \in 1..Len(ord) : P(ord[i]) /\ \A j \in 1..(i - 1) : ~P(ord[j])]
    ELSE <<>>

\* the enumeration orders of a map's keys
Perms(S) ==
    {f \in [1..Cardinality(S) -> S] : \A i, j \in 1..Cardinality(S) : f[i] = f[j] => i = j}

\* a cube is [Dimension, Value]; Dimension maps a key to
\* [Label, Index, CatLabel], CatLabel mapping a category code to its label
catLabel(dim, code) == IF code \in DOMAIN dim.CatLabel THEN dim.CatLabel[code] ELSE <<>>

\* 1a: by descriptive label, enumerating the dimensions in the order ord
labelTier(dims, ord) ==
    LET isRegion(k) == regionLabel(ToLower(dims[k].Label))
        isYear(k)   == yearLabel(ToLower(dims[k].Label))
    IN  [regionKey |-> FirstIn(ord, isRegion), yearKey |-> FirstIn(ord, isYear)]

\* 1b: by key name, for the keys 1a left empty
keyNameTier_Always(ks, ordR, ordY) ==
    [ regionKey |-> IF FirstIn(ordR, regionKeyName) # <<>> THEN FirstIn(ordR, regionKeyName)
                    ELSE ks.regionKey,
      yearKey   |-> IF FirstIn(ordY, yearKeyName) # <<>> THEN FirstIn(ordY, yearKeyName)
                    ELSE ks.yearKey ]

keyNameTier(ks, ordR, ordY) ==
    [ regionKey |-> IF ks.regionKey = <<>> THEN FirstIn(ordR, regionKeyName)
                    ELSE ks.regionKey,
      yearKey   |-> IF ks.yearKey = <<>> THEN FirstIn(ordY, yearKeyName)
                    ELSE ks.yearKey ]

\* 1c: first enumerated dimension = region, second = year
positionTier_Single(ks, ord) ==
    IF (ks.regionKey = <<>> \/ ks.yearKey = <<>>) /\ Len(ord) >= 1
    THEN [ regionKey |-> IF ks.regionKey = <<>> THEN ord[1] ELSE ks.regionKey,
           yearKey   |-> IF ks.yearKey = <<>> THEN ord[IF Len(ord) >= 2 THEN 2 ELSE 1]
                         ELSE ks.yearKey ]
    ELSE ks

positionTier(ks, ord) ==
    IF (ks.regionKey = <<>> \/ ks.yearKey = <<>>) /\ Len(ord) >= 2
    THEN [ regionKey |-> IF ks.regionKey = <<>> THEN ord[1] ELSE ks.regionKey,
           yearKey   |-> IF ks.yearKey = <<>> THEN ord[2] ELSE ks.yearKey ]
    ELSE ks

\* the four enumerations of the dimension map made while resolving the keys
Orders(dims) ==
    [a : Perms(DOMAIN dims), bR : Perms(DOMAIN dims),
     bY : Perms(DOMAIN dims), c : Perms(DOMAIN dims)]

resolveKeys(dims, ord) ==
    positionTier(keyNameTier(labelTier(dims, ord.a), ord.bR, ord.bY), ord.c)

\* the key pairs the resolution can end with, over all enumeration orders:
\* {resolveKeys(dims, ord) : ord \in Orders(dims)}, computed tier by tier
KeyChoices(dims) ==
    LET P  == Perms(DOMAIN dims)
        T1 == {labelTier(dims, oa) : oa \in P}
        T2 == UNION {{keyNameTier(t, oR, oY) : oR \in P, oY \in P} : t \in T1}
    IN  UNION {{positionTier(t, oc) : oc \in P} : t \in T2}

\* index (from 0) of the first category of dim satisfying P, -1 if none
FirstIndex(index, P(_)) ==
    IF \E i \in 1..Len(index) : P(index[i])
    THEN (CHOOSE i \in 1..Len(index) : P(index[i]) /\ \A j \in 1..(i - 1) : ~P(index[j])) - 1
    ELSE -1

NoStats == [Total |-> 0, PerCapita |-> RZero, Breakdown |-> <<>>, nil |-> TRUE]

Stats(total, perCapita, breakdown) ==
    [Total |-> total, PerCapita |-> perCapita, Breakdown |-> breakdown, nil |-> FALSE]

\* the outcome of a resolver run: the error ("" for none), the *CrimeStats
\* returned, the stages run, and the locals of the run
Outcome(err, stats, stages, ks, regIdx, yrIdx) ==
    [ err |-> err, stats |-> stats, stages |-> stages,
      regionKey |-> ks.regionKey, yearKey |-> ks.yearKey,
      regIdx |-> regIdx, yrIdx |-> yrIdx ]

NoKeys == [regionKey |-> <<>>, yearKey |-> <<>>]

FallbackBreakdown ==
    << [Type |-> "Property Crime", Count |-> 300],
       [Type |-> "Violent Crime", Count |-> 100],
       [Type |-> "Other Crime", Count |-> 100] >>

\* the estimate returned for a cube without dimensions
fallbackStats_Matched(division) ==
    Stats(500, Rat(500, pop(normalize(division))), FallbackBreakdown)

fallbackStats(division) == Stats(500, Rat(500, pop(division)), FallbackBreakdown)

\* flattened position of a (region, year) pair
valuePos_YearMajor(regIdx, yrIdx, nReg, nYr) == yrIdx * nReg + regIdx

valuePos(regIdx, yrIdx, nReg, nYr) == regIdx * nYr + yrIdx

\* does the category label lbl name the division normalised to target
labelMatches(lbl, target) == normalize(lbl) = target \/ Contains(normalize(lbl), target)

\* index (from 0) of the category of regDim taken for target, -1 if none
matchRegion_ExactFirst(regDim, target) ==
    LET exact(code) == normalize(catLabel(regDim, code)) = target
        matches(code) == labelMatches(catLabel(regDim, code), target)
    IN  IF FirstIndex(regDim.Index, exact) # -1 THEN FirstIndex(regDim.Index, exact)
        ELSE FirstIndex(regDim.Index, matches)

matchRegion(regDim, target) ==
    LET matches(code) == labelMatches(catLabel(regDim, code), target)
    IN  FirstIndex(regDim.Index, matches)

\* the guard of the read of Value[position], n being len(Value)
outOfRange_Strict(position, n) == position > n

outOfRange(position, n) == position >= n

\* fetchStats from the schema check on, with the keys the resolution ended with;
\* resp is [err, cube], err standing for any failure to fetch or decode the cube
fetchStatsFrom(division, year, resp, ks) ==
    IF resp.err
    THEN Outcome("upstream", NoStats, <<"fetch">>, NoKeys, -1, -1)
    ELSE
    LET dims == resp.cube.Dimension
        vals == resp.cube.Value
    IN
    IF DOMAIN dims = {}
    THEN Outcome("", fallbackStats(division), <<"fetch", "schema">>, NoKeys, -1, -1)
    ELSE IF ks.regionKey \notin DOMAIN dims \/ ks.yearKey \notin DOMAIN dims
    THEN Outcome("schema", NoStats, <<"fetch", "schema", "keys">>, ks, -1, -1)
    ELSE
    LET regDim == dims[ks.regionKey]
        yrDim  == dims[ks.yearKey]
        target == normalize(division)
        regIdx == matchRegion(regDim, target)
        isYear(code) == code = year
        yrIdx  == FirstIndex(yrDim.Index, isYear)
    IN
    IF regIdx = -1
    THEN Outcome("noregion", NoStats, <<"fetch", "schema", "keys", "region">>, ks, -1, -1)
    ELSE IF yrIdx = -1
    THEN Outcome("noyear", NoStats, <<"fetch", "schema", "keys", "region", "year">>,
                 ks, regIdx, -1)
    ELSE
    LET regLabel == catLabel(regDim, regDim.Index[regIdx + 1])
        position == valuePos(regIdx, yrIdx, Len(regDim.Index), Len(yrDim.Index))
    IN
    IF outOfRange(position, Len(vals))
    THEN Outcome("range", NoStats,
                 <<"fetch", "schema", "keys", "region", "year", "value">>, ks, regIdx, yrIdx)
    ELSE IF position + 1 \notin DOMAIN vals
    THEN \* indexing the slice outside its bounds panics
         Outcome("panic", NoStats,
                 <<"fetch", "schema", "keys", "region", "year", "value">>, ks, regIdx, yrIdx)
    ELSE
    LET total == RTrunc(vals[position + 1])
    IN  Outcome("", Stats(total, Rat(total, pop(regLabel)), <<>>),
                <<"fetch", "schema", "keys", "region", "year", "value", "percapita">>,
                ks, regIdx, yrIdx)

\* fetchStats with the enumeration orders ord of the dimension map
fetchStats(division, year, resp, ord) ==
    fetchStatsFrom(division, year, resp,
                   IF resp.err \/ DOMAIN resp.cube.Dimension = {} THEN NoKeys
                   ELSE resolveKeys(resp.cube.Dimension, ord))

\* the outcomes fetchStats can have, over all enumeration orders
fetchStatsOutcomes(division, year, resp) ==
    IF resp.err \/ DOMAIN resp.cube.Dimension = {}
    THEN {fetchStatsFrom(division, year, resp, NoKeys)}
    ELSE {fetchStatsFrom(division, year, resp, ks) : ks \in KeyChoices(resp.cube.Dimension)}

\* GetCrimeStats: lookup is the answer [err, division] of getGardaDivision
GetCrimeStatsOutcomes_FetchAnyway(lookup, resp) ==
    {[o EXCEPT !.stages = <<"division">> \o @] :
        o \in fetchStatsOutcomes(lookup.division, "2024", resp)}

GetCrimeStatsOutcomes(lookup, resp) ==
    IF lookup.err
    THEN {Outcome("nodivision", NoStats, <<"division">>, NoKeys, -1, -1)}
    ELSE {[o EXCEPT !.stages = <<"division">> \o @] :
             o \in fetchStatsOutcomes(lookup.division, "2024", resp)}

(***************************************************************************)
(* POIScorer: findAmenities, findEntertainment                             *)
(***************************************************************************)
amenityTypes ==
    <<"supermarket", "pharmacy", "convenience_store", "shopping_mall",
      "bank", "hospital", "doctor">>

entertainmentTypes == <<"restaurant", "bar", "cafe", "movie_theater", "gym", "park">>

\* the POIs of the searches for the given types, in order; a failed search is skipped
RECURSIVE collectPOIs(_, _)
collectPOIs(types, search) ==
    IF types = <<>> THEN <<>>
    ELSE LET t     == Head(types)
             found == IF search[t].err THEN <<>>
                      ELSE [i \in 1..Len(search[t].results) |->
                               placePOI(search[t].results[i], t)]
         IN  found \o collectPOIs(Tail(types), search)

findAmenities(p, search) ==
    [p EXCEPT !.Amenities = @ \o collectPOIs(amenityTypes, search)]

findEntertainment(p, search) ==
    [p EXCEPT !.Entertainment = @ \o collectPOIs(entertainmentTypes, search)]

(***************************************************************************)
(* PriceAnalyzer: findSimilarProperties, calculateAreaAveragePrice,        *)
(* getPriceHistory                                                         *)
(***************************************************************************)
\* the listings of the adverts of the embedded JSON of the search page
RECURSIVE fromAdverts(_)
fromAdverts(adverts) ==
    IF adverts = <<>> THEN <<>>
    ELSE LET ad    == Head(adverts)
             price == IF ad.Monthly = 0 THEN ad.Weekly ELSE ad.Monthly
         IN  (IF price = 0 THEN <<>>
              ELSE <<[Address |-> ad.DisplayAddress, Price |-> RInt(price),
                      URL |-> <<"https://www.daft.ie", ad.AdPath>>]>>)
                 \o fromAdverts(Tail(adverts))

\* the listings of the result items of the search page's HTML
RECURSIVE fromItems(_)
fromItems(items) ==
    IF items = <<>> THEN <<>>
    ELSE LET it    == Head(items)
             price == extractPriceValue(TrimSpace(it.priceTxt))
         IN  (IF it.href = "" \/ it.address = "" \/ price = RZero THEN <<>>
              ELSE <<[Address |-> it.address, Price |-> price,
                      URL |-> <<"https://www.daft.ie", it.href>>]>>)
                 \o fromItems(Tail(items))

\* the cut to 5 entries
limitSimilar_Last(similar) ==
    IF Len(similar) > 5 THEN SubSeq(similar, Len(similar) - 4, Len(similar)) ELSE similar

limitSimilar(similar) == IF Len(similar) > 5 THEN SubSeq(similar, 1, 5) ELSE similar

\* page is the search page fetched: [err, jsonOk, adverts, items]
findSimilarProperties(p, page) ==
    IF page.err THEN [err |-> TRUE, property |-> p]
    ELSE LET kept == p.Similar
                        \o (IF page.jsonOk THEN fromAdverts(page.adverts) ELSE <<>>)
                        \o fromItems(page.items)
         IN  [ err      |-> FALSE,
               property |-> [p EXCEPT !.Similar = limitSimilar(kept)] ]

RECURSIVE sumPrices(_)
sumPrices(similar) ==
    IF similar = <<>> THEN [total |-> RZero, count |-> 0]
    ELSE LET rest == sumPrices(Tail(similar))
         IN  IF RGt(Head(similar).Price, RZero)
             THEN [total |-> RAdd(Head(similar).Price, rest.total), count |-> rest.count + 1]
             ELSE rest

calculateAreaAveragePrice_OwnPrice(p) ==
    IF Len(p.Similar) = 0 THEN [p EXCEPT !.AreaAveragePrice = extractPriceValue(p.RentPrice)]
    ELSE LET sum == sumPrices(p.Similar)
         IN  IF sum.count > 0
             THEN [p EXCEPT !.AreaAveragePrice = RDiv(sum.total, RInt(sum.count))]
             ELSE p

calculateAreaAveragePrice(p) ==
    IF Len(p.Similar) = 0 THEN p
    ELSE LET sum == sumPrices(p.Similar)
         IN  IF sum.count > 0
             THEN [p EXCEPT !.AreaAveragePrice = RDiv(sum.total, RInt(sum.count))]
             ELSE p

\* page is the listing page fetched: [err, rows], a row being [date, price]
getPriceHistory(p, page) ==
    IF page.err THEN [err |-> TRUE, property |-> p]
    ELSE LET points(rows) ==
                 [i \in 1..Len(rows) |->
                     [Date |-> rows[i].date, Price |-> extractPriceValue(rows[i].price)]]
             kept == SelectSeq(page.rows, LAMBDA r : r.date # "" /\ r.price # <<>>)
         IN  [ err      |-> FALSE,
               property |-> [p EXCEPT !.PriceHistory = @ \o points(kept)] ]

(***************************************************************************)
(* Safety stages: findNearbyGardai, analyzeStreetLighting, getCrimeStats   *)
(***************************************************************************)
\* answer is the place search's: [err, results]
findNearbyGardai(a, answer) ==
    IF answer.err THEN [err |-> TRUE, analysis |-> a]
    ELSE [ err      |-> FALSE,
           analysis |-> [a EXCEPT !.NearbyGardai =
                            @ \o [i \in 1..Len(answer.results) |->
                                    [ Name     |-> answer.results[i].Name,
                                      Distance |-> distanceTo(answer.results[i]),
                                      Phone    |-> "" ]]] ]

lightingRating_Dark(count) ==
    IF count > 50 THEN 10
    ELSE IF count > 20 THEN 8
    ELSE IF count > 10 THEN 6
    ELSE IF count > 0 THEN 4
    ELSE 0

lightingRating(count) ==
    IF count > 50 THEN 10
    ELSE IF count > 20 THEN 8
    ELSE IF count > 10 THEN 6
    ELSE 4

\* answer is the lighting query's: [err, count]
analyzeStreetLighting(a, answer) ==
    IF answer.err THEN [err |-> TRUE, analysis |-> a]
    ELSE [ err      |-> FALSE,
           analysis |-> [a EXCEPT !.LightingRating = lightingRating(answer.count),
                                  !.LightingDesc = <<answer.count, "street lights within 500m">>] ]

\* what getCrimeStats writes for a resolver outcome
crimeStatsWritten_Placeholder(a, o) ==
    IF o.err # ""
    THEN [a EXCEPT !.CrimeStats = [Total |-> 500, PerCapita |-> Rat(5, 1000), Breakdown |-> <<>>]]
    ELSE [a EXCEPT !.CrimeStats = [ Total     |-> o.stats.Total,
                                    PerCapita |-> o.stats.PerCapita,
                                    Breakdown |-> o.stats.Breakdown ]]

crimeStatsWritten(a, o) ==
    IF o.err # "" THEN a
    ELSE [a EXCEPT !.CrimeStats = [ Total     |-> o.stats.Total,
                                    PerCapita |-> o.stats.PerCapita,
                                    Breakdown |-> o.stats.Breakdown ]]

\* o is the outcome of GetCrimeStats
getCrimeStats(a, o) == [err |-> o.err # "", analysis |-> crimeStatsWritten(a, o)]

\* the copy getSafetyInfo makes into the property after a successful analysis
safetyInfoCopied(p, a) ==
    [p EXCEPT !.CrimeRate = a.CrimeStats.PerCapita,
              !.SafetyRating = a.SafetyScore \div 10,
              !.StreetLighting = a.LightingDesc,
              !.NearbyGardai =
                  @ \o [i \in 1..Len(a.NearbyGardai) |->
                          [ Name     |-> a.NearbyGardai[i].Name,
                            Type     |-> "garda_station",
                            Distance |-> a.NearbyGardai[i].Distance,
                            Duration |-> walkMinutes(a.NearbyGardai[i].Distance) ]]]

(***************************************************************************)
(* Inputs                                                                  *)
(***************************************************************************)
BoundedSeq(S, n) == UNION {[1..k -> S] : k \in 0..n}

\* characters of a price text: currency symbol, separators, white space,
\* digits, decimal point, a letter
PriceAlphabet == {"€", ",", " ", "\t", "1", "2", ".", "p"}

\* the texts of TestExtractPriceValue
TestPriceTexts ==
    { <<"€", "1", ",", "2", "3", "4">>,
      <<"1", ",", "2", "3", "4">>,
      <<"1", " ", "2", "3", "4">> }

PriceTexts == BoundedSeq(PriceAlphabet, MaxTextLen) \cup TestPriceTexts

\* area averages: none, a round one, and the mean of 50, 50 and 100
AvgPrices == {RZero, RInt(100), Rat(200, 3)}

PriceDeltas == {0, 1, 49, 50, 500}

(***************************************************************************)
(* Specification SpecParse: extractPriceValue applied to a price text      *)
(***************************************************************************)
InitParse ==
    /\ pc = "parse:call"
    /\ arg \in PriceTexts
    /\ ret = NoValue
    /\ property = PropertyZero
    /\ analysis = AnalysisZero
    /\ env = NoValue
    /\ trace = <<>>

ParsePrice ==
    /\ pc = "parse:call"
    /\ pc' = "parse:ret"
    /\ ret' = [value |-> extractPriceValue(arg)]
    /\ UNCHANGED <<arg, property, analysis, env, trace>>

NextParse == ParsePrice

SpecParse == InitParse /\ [][NextParse]_vars

(***************************************************************************)
(* Specification SpecRating: calculatePriceRating applied to a listing and *)
(* to a second listing, dearer by arg.delta, against the same area average *)
(***************************************************************************)
RatingInput(avg, tenths) ==
    [PropertyZero EXCEPT !.RentPrice = PriceText(tenths), !.AreaAveragePrice = avg]

InitRating ==
    /\ pc = "rating:call"
    /\ arg \in [avg : AvgPrices, tenths : 0..MaxPriceTenths, delta : PriceDeltas]
    /\ ret = NoValue
    /\ property = RatingInput(arg.avg, arg.tenths)
    /\ analysis = AnalysisZero
    /\ env = NoValue
    /\ trace = <<>>

RatePrice ==
    /\ pc = "rating:call"
    /\ pc' = "rating:ret"
    /\ property' = calculatePriceRating(property)
    /\ ret' = [dearer |-> calculatePriceRating(RatingInput(arg.avg, arg.tenths + arg.delta))]
    /\ UNCHANGED <<arg, analysis, env, trace>>

NextRating == RatePrice

SpecRating == InitRating /\ [][NextRating]_vars

(***************************************************************************)
(* C1: with a non-zero area average, PriceRating is the band of            *)
(* pct = (avg - current) / avg * 100: 10 from 20 up, 9 from 15, 8 from 10, *)
(* 7 from 5, 6 from 0, 5 from -5, 4 from -10, 3 from -15, 2 from -20 and 1 *)
(* below; a boundary value belongs to the higher band.                     *)
(***************************************************************************)
BandThresholds == {20, 15, 10, 5, 0, -5, -10, -15, -20}

\* pct >= k for avg = a.n / a.d > 0 and a current price of t tenths, in integers:
\* (a.n/a.d - t/10) * 100 >= k * a.n/a.d
PctAtLeast(a, t, k) == (10 * a.n - t * a.d) * 100 >= k * 10 * a.n

PctEquals(a, t, k) == (10 * a.n - t * a.d) * 100 = k * 10 * a.n

C1_PriceRatingBands ==
    (pc = "rating:ret" /\ arg.avg.n > 0) =>
        property.PriceRating =
            1 + Cardinality({k \in BandThresholds : PctAtLeast(arg.avg, arg.tenths, k)})

C1_Witness ==
    /\ pc = "rating:ret"
    /\ arg.avg = RInt(100)
    /\ PctEquals(arg.avg, arg.tenths, -20)
    /\ property.PriceRating = 2

(***************************************************************************)
(* C2: for a fixed non-zero area average the rating never rises with the   *)
(* current price: p1 <= p2 implies rating(p1) >= rating(p2).               *)
(***************************************************************************)
C2_RatingMonotone ==
    (pc = "rating:ret" /\ arg.avg.n > 0) =>
        property.PriceRating >= ret.dearer.PriceRating

C2_Witness ==
    /\ pc = "rating:ret"
    /\ arg.avg.n > 0
    /\ arg.delta > 0
    /\ property.PriceRating > ret.dearer.PriceRating
    /\ ret.dearer.PriceRating > 1

(***************************************************************************)
(* C10: removing every currency symbol, comma and space from a price text  *)
(* does not change the value extractPriceValue returns for it.             *)
(***************************************************************************)
C10_SeparatorsIgnored ==
    pc = "parse:ret" => ret.value = extractPriceValue(StripSeparators(arg))

\* the three texts of the test all parse to 1234
C10_TestTexts ==
    (pc = "parse:ret" /\ arg \in TestPriceTexts) => ret.value = RInt(1234)

(***************************************************************************)
(* Specification SpecWalk: calculateWalkScore applied to a property whose  *)
(* amenity and entertainment lists and transport score are given           *)
(***************************************************************************)
\* a POI just inside and one just outside the 1.0 km ring
WalkPOIs ==
    { [Name |-> "a", Type |-> "supermarket", Distance |-> 999, Duration |-> 12],
      [Name |-> "b", Type |-> "supermarket", Distance |-> 1000, Duration |-> 12] }

\* the values findPublicTransport can leave in TransportScore
TransportScores == {0, 5, 7, 8, 9, 10}

InitWalk ==
    /\ pc = "walk:call"
    /\ arg = NoValue
    /\ ret = NoValue
    /\ \E am \in BoundedSeq(WalkPOIs, MaxPOI), en \in BoundedSeq(WalkPOIs, MaxPOI),
          ts \in TransportScores :
          property = [PropertyZero EXCEPT !.Amenities = am, !.Entertainment = en,
                                          !.TransportScore = ts]
    /\ analysis = AnalysisZero
    /\ env = NoValue
    /\ trace = <<>>

WalkScore ==
    /\ pc = "walk:call"
    /\ pc' = "walk:ret"
    /\ property' = calculateWalkScore(property)
    /\ UNCHANGED <<arg, ret, analysis, env, trace>>

NextWalk == WalkScore

SpecWalk == InitWalk /\ [][NextWalk]_vars

(***************************************************************************)
(* C3: after calculateWalkScore, WalkScore is within 0..100 whatever the   *)
(* amenity list, the entertainment list and the transport score.           *)
(***************************************************************************)
C3_WalkScoreBounded ==
    pc = "walk:ret" => (property.WalkScore >= 0 /\ property.WalkScore <= 100)

\* both caps and the transport bonus are at their maximum: 50 + 25 + 25 + 10
C3_Witness ==
    /\ pc = "walk:ret"
    /\ nearby(property.Amenities) >= 6
    /\ nearby(property.Entertainment) >= 6
    /\ property.TransportScore >= 7
    /\ property.WalkScore = 100

(***************************************************************************)
(* Specification SpecTransport: findPublicTransport against a place search *)
(* whose two answers (train stations, bus stations) are given              *)
(***************************************************************************)
StationDists == {300, 499, 500, 800, 1000}

Stations ==
    { [ Name  |-> "Station",
        Types |-> IF d < 500 THEN <<"train_station", "transit_station">> ELSE <<>>,
        Dist  |-> d ] : d \in StationDists }

SearchOk(places) == [err |-> FALSE, results |-> places]

SearchFailed == [err |-> TRUE, results |-> <<>>]

StationAnswers == {SearchOk(l) : l \in BoundedSeq(Stations, MaxStations)} \cup {SearchFailed}

InitTransport ==
    /\ pc = "transport:call"
    /\ arg = NoValue
    /\ ret = NoValue
    /\ property = PropertyZero
    /\ analysis = AnalysisZero
    /\ \E tr \in StationAnswers, bs \in StationAnswers :
          env = [search |-> [t \in {"train_station", "bus_station"} |->
                                IF t = "train_station" THEN tr ELSE bs]]
    /\ trace = <<>>

FindTransport ==
    /\ pc = "transport:call"
    /\ pc' = "transport:ret"
    /\ LET r == findPublicTransport(property, env.search)
       IN  /\ property' = r.property
           /\ ret' = [err |-> r.err]
    /\ UNCHANGED <<arg, analysis, env, trace>>

NextTransport == FindTransport

SpecTransport == InitTransport /\ [][NextTransport]_vars

(***************************************************************************)
(* C4: when both station searches succeed, TransportScore is 5, plus 3 if  *)
(* the first station in insertion order (train results, then bus results)  *)
(* is closer than 0.5 km, else plus 2 if it is closer than 1.0 km, plus 2  *)
(* if two or more stations were recorded; later stations' distances do not *)
(* matter. A train station at 0.3 km and a bus stop at 0.8 km give 10.     *)
(***************************************************************************)
C4_Trains == env.search["train_station"].results

C4_Buses == env.search["bus_station"].results

C4_FirstDist ==
    IF Len(C4_Trains) > 0 THEN C4_Trains[1].Dist ELSE C4_Buses[1].Dist

C4_TransportScore ==
    (pc = "transport:ret" /\ ~ret.err) =>
        LET n == Len(C4_Trains) + Len(C4_Buses)
        IN  /\ n = 0 => property.TransportScore = 5
            /\ n > 0 =>
                 property.TransportScore =
                     5 + (IF C4_FirstDist < 500 THEN 3
                          ELSE IF C4_FirstDist < 1000 THEN 2 ELSE 0)
                       + (IF n >= 2 THEN 2 ELSE 0)
            /\ (Len(C4_Trains) = 1 /\ Len(C4_Buses) = 1 /\ C4_Trains[1].Dist = 300
                   /\ C4_Buses[1].Dist = 800) => property.TransportScore = 10

\* the first station is not the nearest one: the nearer bus stop is ignored
C4_Witness ==
    /\ pc = "transport:ret"
    /\ ~ret.err
    /\ Len(C4_Trains) = 1
    /\ Len(C4_Buses) = 1
    /\ C4_Trains[1].Dist = 1000
    /\ C4_Buses[1].Dist = 300
    /\ property.TransportScore = 7

(***************************************************************************)
(* Specification SpecCrime: the crime-statistics resolver against a given  *)
(* division lookup answer and a given cube response                        *)
(***************************************************************************)
Kerry == <<"K", "e", "r", "r", "y">>

Mayo == <<"M", "a", "y", "o", " ", "D", "i", "v", "i", "s", "i", "o", "n">>

KerryGarda == <<"K", "e", "r", "r", "y", " ", "G", "a", "r", "d", "a", " ", "D", "i", "v", "i", "s", "i", "o", "n">>

GalwayGarda == <<"G", "a", "l", "w", "a", "y", " ", "G", "a", "r", "d", "a", " ", "D", "i", "v", "i", "s", "i", "o", "n">>

\* the division names the lookup answers with
Divisions ==
    {DMR_Northern, DMR_Southern, Kerry, Mayo,
     DMR_NorthCentral, DMR_SouthCentral, DMR_Eastern, DMR_Western}

\* the region categories of a generated cube, in index order
RegionNames == SubSeq(<<DMR_Northern, DMR_Southern, KerryGarda, GalwayGarda, DMR_Western>>,
                      1, MaxRegions)

RegionCode(i) == <<"R", i>>

YearCode(y) ==
    CASE y = 2024 -> "2024" [] y = 2023 -> "2023" [] y = 2022 -> "2022"
      [] y = 2021 -> "2021" [] OTHER -> "2020"

\* the year categories of a generated cube, in index order, ending with 2024
YearCodes == [i \in 1..MaxYears |-> YearCode(2024 - MaxYears + i)]

RequestedYears == {"2024", "2023", "1999"}

\* the count the statistics office publishes for region r and year y (from 1)
Count(r, y) == Rat(2 * (3000 * r + 100 * y) + 1, 2)

RegionDimSpecs == [key : {<<"C", "0", "2", "4", "8", "0", "V", "0", "3", "0", "0", "3">>, <<"K", "1">>}, label : {<<"G", "a", "r", "d", "a", " ", "D", "i", "v", "i", "s", "i", "o", "n">>, <<"C", "r", "i", "m", "e">>}]

YearDimSpecs == [key : {<<"T", "L", "I", "S", "T", "(", "A", "1", ")">>, <<"Y", "1">>}, label : {<<"Y", "e", "a", "r">>, <<"Q", "u", "a", "r", "t", "e", "r">>, <<"P", "e", "r", "i", "o", "d", " ", "b", "y", " ", "R", "e", "g", "i", "o", "n">>}]

StatisticKey == <<"S", "T", "A", "T", "I", "S", "T", "I", "C">>

CubeShapes ==
    [ rs : RegionDimSpecs, ys : YearDimSpecs, extra : BOOLEAN,
      layout : {"region-major", "year-major"}, cut : {0, 1} ]

regionDim(spec) ==
    [ Label    |-> spec.label,
      Index    |-> [i \in 1..MaxRegions |-> RegionCode(i)],
      CatLabel |-> [c \in {RegionCode(i) : i \in 1..MaxRegions} |->
                       RegionNames[CHOOSE i \in 1..MaxRegions : RegionCode(i) = c]] ]

yearDim(spec) ==
    [ Label    |-> spec.label,
      Index    |-> YearCodes,
      CatLabel |-> [c \in {YearCodes[i] : i \in 1..MaxYears} |-> <<c>>] ]

statisticDim ==
    [ Label    |-> <<"S", "t", "a", "t", "i", "s", "t", "i", "c">>,
      Index    |-> <<"CJA07">>,
      CatLabel |-> [c \in {"CJA07"} |-> <<"R", "e", "c", "o", "r", "d", "e", "d", " ", "c", "r", "i", "m", "e", " ", "i", "n", "c", "i", "d", "e", "n", "t", "s">>] ]

flatten(layout) ==
    [ p \in 1..(MaxRegions * MaxYears) |->
        IF layout = "region-major"
        THEN Count(((p - 1) \div MaxYears) + 1, ((p - 1) % MaxYears) + 1)
        ELSE Count(((p - 1) % MaxRegions) + 1, ((p - 1) \div MaxRegions) + 1) ]

MakeCube(sh) ==
    [ Dimension |->
          [ k \in {sh.rs.key, sh.ys.key} \cup (IF sh.extra THEN {StatisticKey} ELSE {}) |->
              IF k = sh.rs.key THEN regionDim(sh.rs)
              ELSE IF k = sh.ys.key THEN yearDim(sh.ys)
              ELSE statisticDim ],
      Value |-> SubSeq(flatten(sh.layout), 1, MaxRegions * MaxYears - sh.cut) ]

\* a cube without dimensions, and one with the region dimension only
EmptyCube == [Dimension |-> [k \in {} |-> statisticDim], Value |-> <<>>]

RegionOnlyCube(rs) ==
    [ Dimension |-> [k \in {rs.key} |-> regionDim(rs)],
      Value     |-> [p \in 1..MaxRegions |-> Count(p, 1)] ]

\* a cube with the year dimension only
YearOnlyCube(ys) ==
    [ Dimension |-> [k \in {ys.key} |-> yearDim(ys)],
      Value     |-> [p \in 1..MaxYears |-> Count(1, p)] ]

\* a cube in which the label of one region contains the label of another;
\* names lists the region labels in index order
OverlapCube(names) ==
    [ Dimension |->
          [ k \in {<<"C", "0", "2", "4", "8", "0", "V", "0", "3", "0", "0", "3">>,
                   <<"T", "L", "I", "S", "T", "(", "A", "1", ")">>} |->
              IF k = <<"T", "L", "I", "S", "T", "(", "A", "1", ")">>
              THEN yearDim([label |-> <<"Y", "e", "a", "r">>])
              ELSE [ Label    |-> <<"G", "a", "r", "d", "a", " ", "D", "i", "v", "i", "s", "i", "o", "n">>,
                     Index    |-> [i \in 1..Len(names) |-> RegionCode(i)],
                     CatLabel |-> [c \in {RegionCode(i) : i \in 1..Len(names)} |->
                                      names[CHOOSE i \in 1..Len(names) : RegionCode(i) = c]] ] ],
      Value |-> [p \in 1..(Len(names) * MaxYears) |->
                    Count(((p - 1) \div MaxYears) + 1, ((p - 1) % MaxYears) + 1)] ]

OverlapNames ==
    {<<KerryGarda, Kerry, Mayo>>, <<Kerry, KerryGarda, Mayo>>, <<Mayo, KerryGarda>>,
     <<DMR_NorthCentral, DMR_SouthCentral, DMR_Eastern, DMR_Western>>}

NoShape == [none |-> TRUE]

\* a cube response with the shape it was generated from
CubeInputs ==
    {[shape |-> sh, resp |-> [err |-> FALSE, cube |-> MakeCube(sh)]] : sh \in CubeShapes}
      \cup {[shape |-> NoShape, resp |-> [err |-> FALSE, cube |-> EmptyCube]]}
      \cup {[shape |-> NoShape, resp |-> [err |-> FALSE, cube |-> RegionOnlyCube(rs)]] :
               rs \in RegionDimSpecs}
      \cup {[shape |-> NoShape, resp |-> [err |-> FALSE, cube |-> YearOnlyCube(ys)]] :
               ys \in YearDimSpecs}
      \cup {[shape |-> NoShape, resp |-> [err |-> FALSE, cube |-> OverlapCube(names)]] :
               names \in OverlapNames}
      \cup {[shape |-> NoShape, resp |-> [err |-> TRUE, cube |-> EmptyCube]]}

LookupAnswers ==
    {[err |-> FALSE, division |-> d] : d \in Divisions}
      \cup {[err |-> TRUE, division |-> <<>>]}

InitCrime ==
    /\ pc = "crime:call"
    /\ ret = NoValue
    /\ property = PropertyZero
    /\ analysis = AnalysisZero
    /\ trace = <<>>
    /\ \E ci \in CubeInputs, lk \in LookupAnswers, yr \in RequestedYears :
          /\ arg = [year |-> yr, shape |-> ci.shape]
          /\ env = [lookup |-> lk, resp |-> ci.resp]

\* fetchStats(division, year) called directly
CallFetchStats ==
    /\ pc = "crime:call"
    /\ ~env.lookup.err
    /\ pc' = "crime:ret"
    /\ \E o \in fetchStatsOutcomes(env.lookup.division, arg.year, env.resp) :
          ret' = [via |-> "fetchStats", out |-> o]
    /\ UNCHANGED <<arg, property, analysis, env, trace>>

\* GetCrimeStats(lat, lng)
CallGetCrimeStats ==
    /\ pc = "crime:call"
    /\ pc' = "crime:ret"
    /\ \E o \in GetCrimeStatsOutcomes(env.lookup, env.resp) :
          ret' = [via |-> "GetCrimeStats", out |-> o]
    /\ UNCHANGED <<arg, property, analysis, env, trace>>

NextCrime == CallFetchStats \/ CallGetCrimeStats

SpecCrime == InitCrime /\ [][NextCrime]_vars

(***************************************************************************)
(* C5: for a fetched cube without dimensions fetchStats returns, without   *)
(* error, Total 500, PerCapita 500 / population(division) and the fixed    *)
(* three-entry breakdown, for every division and year, and runs no key     *)
(* resolution or matching.                                                 *)
(***************************************************************************)
C5_ZeroDimensions ==
    /\ pc = "crime:ret"
    /\ ret.via = "fetchStats"
    /\ ~env.resp.err
    /\ DOMAIN env.resp.cube.Dimension = {}

C5_Population(div) ==
    IF div = DMR_Northern THEN 180000
    ELSE IF div = DMR_NorthCentral THEN 300000
    ELSE IF div = DMR_Southern THEN 200000
    ELSE IF div = DMR_SouthCentral THEN 280000
    ELSE IF div = DMR_Eastern THEN 260000
    ELSE IF div = DMR_Western THEN 220000
    ELSE 100000

C5_SyntheticFallback ==
    C5_ZeroDimensions =>
        /\ ret.out.err = ""
        /\ ~ret.out.stats.nil
        /\ ret.out.stats.Total = 500
        /\ ret.out.stats.PerCapita.n * C5_Population(env.lookup.division)
               = 500 * ret.out.stats.PerCapita.d
        /\ ret.out.stats.Breakdown =
               << [Type |-> "Property Crime", Count |-> 300],
                  [Type |-> "Violent Crime", Count |-> 100],
                  [Type |-> "Other Crime", Count |-> 100] >>
        /\ ret.out.stages = <<"fetch", "schema">>
        /\ ret.out.regionKey = <<>>
        /\ ret.out.yearKey = <<>>
        /\ ret.out.regIdx = -1
        /\ ret.out.yrIdx = -1

C5_Witness ==
    /\ C5_ZeroDimensions
    /\ env.lookup.division = DMR_Northern
    /\ arg.year = "1999"
    /\ ret.out.stats.PerCapita = [n |-> 1, d |-> 360]

(***************************************************************************)
(* C6: for a well-formed two-dimensional region x year cube, flattened     *)
(* region-major, whose region and year dimensions are recognisable,        *)
(* fetchStats returns as Total the integer part of                         *)
(* values[regionIndex * yearCount + yearIndex]: the count stored for the   *)
(* matched region and the requested year.                                  *)
(***************************************************************************)
\* the region dimension is recognised by its label or by its key, the year
\* dimension likewise, and neither can be taken for the other
C6_Recognisable(sh) ==
    /\ (sh.rs.label = <<"G", "a", "r", "d", "a", " ", "D", "i", "v", "i", "s", "i", "o", "n">> \/ sh.rs.key = <<"C", "0", "2", "4", "8", "0", "V", "0", "3", "0", "0", "3">>)
    /\ (sh.ys.label = <<"Y", "e", "a", "r">> \/ (sh.ys.label = <<"Q", "u", "a", "r", "t", "e", "r">> /\ sh.ys.key = <<"T", "L", "I", "S", "T", "(", "A", "1", ")">>))

C6_WellFormed ==
    /\ pc = "crime:ret"
    /\ ret.via = "fetchStats"
    /\ arg.shape # NoShape
    /\ ~arg.shape.extra
    /\ arg.shape.layout = "region-major"
    /\ arg.shape.cut = 0
    /\ C6_Recognisable(arg.shape)

\* index (from 1) of the region category the division names, 0 if none
C6_Region ==
    IF env.lookup.division = DMR_Northern THEN 1
    ELSE IF env.lookup.division = DMR_Southern /\ MaxRegions >= 2 THEN 2
    ELSE IF env.lookup.division = Kerry /\ MaxRegions >= 3 THEN 3
    ELSE 0

\* index (from 1) of the requested year among the year categories, 0 if none
C6_Year ==
    IF arg.year = "2024" THEN MaxYears
    ELSE IF arg.year = "2023" /\ MaxYears >= 2 THEN MaxYears - 1
    ELSE 0

C6_ExactCell ==
    C6_WellFormed =>
        /\ (C6_Region > 0 /\ C6_Year > 0) => ret.out.err = ""
        /\ ret.out.err = "" =>
              /\ C6_Region > 0
              /\ C6_Year > 0
              /\ ret.out.regIdx = C6_Region - 1
              /\ ret.out.yrIdx = C6_Year - 1
              /\ ret.out.stats.Total = 3000 * C6_Region + 100 * C6_Year

\* the keys are found by their names, the region by a substring match
C6_Witness ==
    /\ C6_WellFormed
    /\ arg.shape.rs.label = <<"C", "r", "i", "m", "e">>
    /\ arg.shape.ys.label = <<"Q", "u", "a", "r", "t", "e", "r">>
    /\ env.lookup.division = Kerry
    /\ arg.year = "2023"
    /\ ret.out.err = ""
    /\ ret.out.stats.Total = 9000 + 100 * (MaxYears - 1)

(***************************************************************************)
(* Specification SpecSafety: calculateSafetyScore applied to an analysis   *)
(* whose Garda stations, lighting rating and crime rate are given          *)
(***************************************************************************)
GardaStation == [Name |-> "Garda Station", Distance |-> 1200, Phone |-> ""]

\* crime rates around the 0.02 threshold
CrimeRates == {RZero, Rat(1, 360), Rat(199, 10000), Rat(2, 100), Rat(201, 10000), Rat(3, 100)}

InitSafety ==
    /\ pc = "safety:call"
    /\ arg = NoValue
    /\ ret = NoValue
    /\ property = PropertyZero
    /\ \E g \in BoundedSeq({GardaStation}, MaxGardai),
          l \in (-2 * MaxLighting)..MaxLighting, r \in CrimeRates :
          analysis = [AnalysisZero EXCEPT !.NearbyGardai = g,
                                          !.LightingRating = l,
                                          !.CrimeStats.PerCapita = r]
    /\ env = NoValue
    /\ trace = <<>>

SafetyScore ==
    /\ pc = "safety:call"
    /\ pc' = "safety:ret"
    /\ analysis' = calculateSafetyScore(analysis)
    /\ UNCHANGED <<arg, ret, property, env, trace>>

NextSafety == SafetyScore

SpecSafety == InitSafety /\ [][NextSafety]_vars

(***************************************************************************)
(* C9: SafetyScore = clamp(70 + 5 * safety factors - 10 * risk factors     *)
(* + 2 * lightingRating, 1, 100): one safety factor iff a Garda station    *)
(* was found, one iff lightingRating >= 7, one risk factor iff the         *)
(* per-capita crime rate is above 0.02; the result is within 1..100.       *)
(***************************************************************************)
C9_Raw ==
    70 + (IF analysis.NearbyGardai # <<>> THEN 5 ELSE 0)
       + (IF analysis.LightingRating >= 7 THEN 5 ELSE 0)
       - (IF 100 * analysis.CrimeStats.PerCapita.n > 2 * analysis.CrimeStats.PerCapita.d
          THEN 10 ELSE 0)
       + 2 * analysis.LightingRating

C9_SafetyScore ==
    pc = "safety:ret" =>
        /\ analysis.SafetyScore =
               (IF C9_Raw < 1 THEN 1 ELSE IF C9_Raw > 100 THEN 100 ELSE C9_Raw)
        /\ analysis.SafetyScore >= 1
        /\ analysis.SafetyScore <= 100
        /\ Len(analysis.SafetyFactors) =
               (IF analysis.NearbyGardai # <<>> THEN 1 ELSE 0)
                   + (IF analysis.LightingRating >= 7 THEN 1 ELSE 0)
        /\ Len(analysis.RiskFactors) =
               (IF 100 * analysis.CrimeStats.PerCapita.n > 2 * analysis.CrimeStats.PerCapita.d
                THEN 1 ELSE 0)

\* a crime rate of exactly 0.02 is no risk factor: 70 + 5 + 5 + 2 * 8
C9_Witness ==
    /\ pc = "safety:ret"
    /\ analysis.NearbyGardai # <<>>
    /\ analysis.LightingRating = 8
    /\ analysis.CrimeStats.PerCapita = Rat(2, 100)
    /\ analysis.SafetyScore = 96

(***************************************************************************)
(* Specification SpecEnrich: one request, /scrape or /analyze.             *)
(* scrapeDaftProperty ends with enrichPropertyInfo (geocoding, safety,     *)
(* quality of life, value); handleAnalyze then geocodes again and runs     *)
(* analyzeSafety on a fresh AnalysisResponse. Every external call answers  *)
(* with one of a few given answers, chosen when the call is made.          *)
(***************************************************************************)
Ev(path, stage, ok, note) == [path |-> path, stage |-> stage, ok |-> ok, note |-> note]

GeocodeAnswers == {[err |-> TRUE, Lat |-> 0, Lng |-> 0], [err |-> FALSE, Lat |-> 5333, Lng |-> -625]}

GardaPlace == [Name |-> "Garda Station", Types |-> <<"police">>, Dist |-> 1200]

GardaAnswers == {SearchFailed, SearchOk(<<>>), SearchOk(<<GardaPlace>>)}

LightingAnswers ==
    {[err |-> TRUE, count |-> 0]}
        \cup {[err |-> FALSE, count |-> c] : c \in {0, 10, 11, 25, 51}}

GoodShape ==
    [ rs |-> [key |-> <<"C", "0", "2", "4", "8", "0", "V", "0", "3", "0", "0", "3">>, label |-> <<"G", "a", "r", "d", "a", " ", "D", "i", "v", "i", "s", "i", "o", "n">>], ys |-> [key |-> <<"T", "L", "I", "S", "T", "(", "A", "1", ")">>, label |-> <<"Y", "e", "a", "r">>],
      extra |-> FALSE, layout |-> "region-major", cut |-> 0 ]

\* the answers of the division lookup and of the cube fetch of one run
CrimeRuns ==
    { [lookup |-> [err |-> TRUE, division |-> <<>>], resp |-> [err |-> TRUE, cube |-> EmptyCube]],
      [lookup |-> [err |-> FALSE, division |-> DMR_Southern], resp |-> [err |-> TRUE, cube |-> EmptyCube]],
      [lookup |-> [err |-> FALSE, division |-> DMR_Southern], resp |-> [err |-> FALSE, cube |-> EmptyCube]],
      [lookup |-> [err |-> FALSE, division |-> DMR_Southern], resp |-> [err |-> FALSE, cube |-> MakeCube(GoodShape)]],
      [lookup |-> [err |-> FALSE, division |-> Mayo], resp |-> [err |-> FALSE, cube |-> MakeCube(GoodShape)]] }

CrimeOutcomes == UNION {GetCrimeStatsOutcomes(r.lookup, r.resp) : r \in CrimeRuns}

Place(d) == [Name |-> "Place", Types |-> <<>>, Dist |-> d]

TrainAnswers == {SearchFailed, SearchOk(<<>>), SearchOk(<<Place(300)>>)}

BusAnswers == {SearchFailed, SearchOk(<<Place(800)>>)}

\* place searches for the amenity (entertainment) types: all answer with one
\* place, the second type fails, all fail
SearchWorlds(types, d) ==
    { [t \in {types[i] : i \in 1..Len(types)} |-> SearchOk(<<Place(d)>>)],
      [t \in {types[i] : i \in 1..Len(types)} |->
          IF t = types[2] THEN SearchFailed ELSE SearchOk(<<Place(d)>>)],
      [t \in {types[i] : i \in 1..Len(types)} |-> SearchFailed] }

Advert(price) ==
    [DisplayAddress |-> "Ranelagh, Dublin 6", Monthly |-> price, Weekly |-> 0, AdPath |-> "/share/1"]

Item(priceTxt) == [href |-> "/share/2", address |-> "Rathmines, Dublin 6", priceTxt |-> priceTxt]

SearchPages ==
    { [err |-> TRUE, jsonOk |-> FALSE, adverts |-> <<>>, items |-> <<>>],
      [err |-> FALSE, jsonOk |-> TRUE, adverts |-> <<Advert(1000), Advert(0), Advert(1250)>>,
       items |-> <<>>],
      [err |-> FALSE, jsonOk |-> FALSE, adverts |-> <<>>,
       items |-> <<Item(PriceText(9000)), Item(<<"P", "O", "A">>)>>],
      [err |-> FALSE, jsonOk |-> TRUE, adverts |-> <<Advert(0)>>,
       items |-> <<Item(<<"P", "O", "A">>)>>] }

HistoryPages ==
    { [err |-> TRUE, rows |-> <<>>],
      [err |-> FALSE, rows |-> <<[date |-> "2024-01", price |-> PriceText(9500)]>>] }

\* the listing as scraped
ScrapedProperty ==
    [PropertyZero EXCEPT !.Address = <<"1", " ", "M", "a", "i", "n", " ", "S", "t", ",", " ", "R", "a", "n", "e", "l", "a", "g", "h", ",", " ", "D", "u", "b", "l", "i", "n", " ", "6">>, !.RentPrice = PriceText(10000)]

InitEnrich ==
    /\ pc = "enrich/geocode"
    /\ arg \in [route : {"scrape", "analyze"}]
    /\ ret = NoValue
    /\ property = ScrapedProperty
    /\ analysis = AnalysisZero
    /\ env = NoValue
    /\ trace = <<>>

\* --- control flow of the orchestrators ---

\* enrichPropertyInfo after getCoordinates
afterEnrichCoordinates(err) == IF err THEN "enrich/return" ELSE "enrich/gardai"

\* handleAnalyze after getCoordinates: a failure is only logged
afterAnalyzeCoordinates(err) == "analyze/gardai"

\* enrichPropertyInfo after getSafetyInfo: a failure is only logged
afterSafetyInfo_Abort(err) == IF err THEN "enrich/return" ELSE "qol/transport"

afterSafetyInfo(err) == "qol/transport"

\* getQualityOfLife after findPublicTransport: a failure is only logged
afterPublicTransport(err) == "qol/amenities"

\* analyzeValue after findSimilarProperties: a failure is only logged
afterSimilarProperties(err) == "value/average"

\* where getSafetyInfo / analyzeSafety return to
safetyReturn(path, err) == IF path = "enrich" THEN afterSafetyInfo(err) ELSE "done"

\* getSafetyInfo / analyzeSafety after one of their first three stages
afterSafetyStage(path, next, err) ==
    IF err THEN safetyReturn(path, TRUE) ELSE next

Paths == {"enrich", "analyze"}

\* --- actions ---

GetCoordinates(path) ==
    /\ pc = IF path = "enrich" THEN "enrich/geocode" ELSE "analyze/geocode"
    /\ \E g \in GeocodeAnswers :
          /\ property' = IF g.err THEN property
                         ELSE [property EXCEPT !.Coordinates = [Lat |-> g.Lat, Lng |-> g.Lng]]
          /\ trace' = Append(trace, Ev(path, "geocode", ~g.err, ""))
          /\ pc' = IF path = "enrich" THEN afterEnrichCoordinates(g.err)
                   ELSE afterAnalyzeCoordinates(g.err)
    /\ UNCHANGED <<arg, ret, analysis, env>>

\* getSafetyInfo starts from a fresh AnalysisResponse
FindNearbyGardai(path) ==
    /\ pc = IF path = "enrich" THEN "enrich/gardai" ELSE "analyze/gardai"
    /\ \E ans \in GardaAnswers :
          LET a0 == IF path = "enrich" THEN AnalysisZero ELSE analysis
              r  == findNearbyGardai(a0, ans)
          IN  /\ analysis' = r.analysis
              /\ trace' = Append(trace, Ev(path, "gardai", ~r.err, ""))
              /\ pc' = afterSafetyStage(path,
                           IF path = "enrich" THEN "enrich/lighting" ELSE "analyze/lighting",
                           r.err)
    /\ UNCHANGED <<arg, ret, property, env>>

AnalyzeStreetLighting(path) ==
    /\ pc = IF path = "enrich" THEN "enrich/lighting" ELSE "analyze/lighting"
    /\ \E ans \in LightingAnswers :
          LET r == analyzeStreetLighting(analysis, ans)
          IN  /\ analysis' = r.analysis
              /\ trace' = Append(trace, Ev(path, "lighting", ~r.err, ""))
              /\ pc' = afterSafetyStage(path,
                           IF path = "enrich" THEN "enrich/crime" ELSE "analyze/crime",
                           r.err)
    /\ UNCHANGED <<arg, ret, property, env>>

GetCrimeStats(path) ==
    /\ pc = IF path = "enrich" THEN "enrich/crime" ELSE "analyze/crime"
    /\ \E o \in CrimeOutcomes :
          LET r == getCrimeStats(analysis, o)
          IN  /\ analysis' = r.analysis
              /\ trace' = Append(trace,
                     Ev(path, "crime", ~r.err,
                        IF ~r.err /\ o.stages = <<"division", "fetch", "schema">>
                        THEN "fallback" ELSE ""))
              /\ pc' = afterSafetyStage(path,
                           IF path = "enrich" THEN "enrich/score" ELSE "analyze/score",
                           r.err)
    /\ UNCHANGED <<arg, ret, property, env>>

\* calculateSafetyScore, then the return of getSafetyInfo (with its copy into
\* the property) or of analyzeSafety
CalculateSafetyScore(path) ==
    /\ pc = IF path = "enrich" THEN "enrich/score" ELSE "analyze/score"
    /\ analysis' = calculateSafetyScore(analysis)
    /\ property' = IF path = "enrich" THEN safetyInfoCopied(property, analysis')
                   ELSE property
    /\ trace' = Append(trace, Ev(path, "score", TRUE, ""))
    /\ pc' = safetyReturn(path, FALSE)
    /\ UNCHANGED <<arg, ret, env>>

FindPublicTransport ==
    /\ pc = "qol/transport"
    /\ \E tr \in TrainAnswers, bs \in BusAnswers :
          LET r == findPublicTransport(property,
                       [t \in {"train_station", "bus_station"} |->
                           IF t = "train_station" THEN tr ELSE bs])
          IN  /\ property' = r.property
              /\ trace' = Append(trace, Ev("enrich", "transport", ~r.err, ""))
              /\ pc' = afterPublicTransport(r.err)
    /\ UNCHANGED <<arg, ret, analysis, env>>

FindAmenities ==
    /\ pc = "qol/amenities"
    /\ \E w \in SearchWorlds(amenityTypes, 400) :
          /\ property' = findAmenities(property, w)
          /\ trace' = Append(trace,
                 Ev("enrich", "amenities", \E t \in DOMAIN w : ~w[t].err, ""))
    /\ pc' = "qol/entertainment"
    /\ UNCHANGED <<arg, ret, analysis, env>>

FindEntertainment ==
    /\ pc = "qol/entertainment"
    /\ \E w \in SearchWorlds(entertainmentTypes, 1500) :
          /\ property' = findEntertainment(property, w)
          /\ trace' = Append(trace,
                 Ev("enrich", "entertainment", \E t \in DOMAIN w : ~w[t].err, ""))
    /\ pc' = "qol/walk"
    /\ UNCHANGED <<arg, ret, analysis, env>>

CalculateWalkScore ==
    /\ pc = "qol/walk"
    /\ property' = calculateWalkScore(property)
    /\ trace' = Append(trace, Ev("enrich", "walk", TRUE, ""))
    /\ pc' = "value/similar"
    /\ UNCHANGED <<arg, ret, analysis, env>>

FindSimilarProperties ==
    /\ pc = "value/similar"
    /\ \E page \in SearchPages :
          LET r == findSimilarProperties(property, page)
          IN  /\ property' = r.property
              /\ trace' = Append(trace, Ev("enrich", "similar", ~r.err, ""))
              /\ pc' = afterSimilarProperties(r.err)
    /\ UNCHANGED <<arg, ret, analysis, env>>

\* calculateAreaAveragePrice, then calculatePriceRating
RatePriceAgainstArea ==
    /\ pc = "value/average"
    /\ property' = calculatePriceRating(calculateAreaAveragePrice(property))
    /\ trace' = Append(trace, Ev("enrich", "rating", TRUE, ""))
    /\ pc' = "value/history"
    /\ UNCHANGED <<arg, ret, analysis, env>>

GetPriceHistory ==
    /\ pc = "value/history"
    /\ \E page \in HistoryPages :
          LET r == getPriceHistory(property, page)
          IN  /\ property' = r.property
              /\ trace' = Append(trace, Ev("enrich", "history", ~r.err, ""))
    /\ pc' = "enrich/return"
    /\ UNCHANGED <<arg, ret, analysis, env>>

\* scrapeDaftProperty returns; /analyze goes on with a fresh AnalysisResponse
EnrichReturn ==
    /\ pc = "enrich/return"
    /\ pc' = IF arg.route = "analyze" THEN "analyze/geocode" ELSE "done"
    /\ analysis' = IF arg.route = "analyze" THEN AnalysisZero ELSE analysis
    /\ UNCHANGED <<arg, ret, property, env, trace>>

NextEnrich ==
    \/ \E path \in Paths : GetCoordinates(path)
    \/ \E path \in Paths : FindNearbyGardai(path)
    \/ \E path \in Paths : AnalyzeStreetLighting(path)
    \/ \E path \in Paths : GetCrimeStats(path)
    \/ \E path \in Paths : CalculateSafetyScore(path)
    \/ FindPublicTransport
    \/ FindAmenities
    \/ FindEntertainment
    \/ CalculateWalkScore
    \/ FindSimilarProperties
    \/ RatePriceAgainstArea
    \/ GetPriceHistory
    \/ EnrichReturn

SpecEnrich == InitEnrich /\ [][NextEnrich]_vars

Attempted(path, stage) ==
    \E i \in 1..Len(trace) : trace[i].path = path /\ trace[i].stage = stage

Succeeded(path, stage) ==
    \E i \in 1..Len(trace) : trace[i].path = path /\ trace[i].stage = stage /\ trace[i].ok

Failed(path, stage) ==
    \E i \in 1..Len(trace) : trace[i].path = path /\ trace[i].stage = stage /\ ~trace[i].ok

FellBack(path) ==
    \E i \in 1..Len(trace) :
        trace[i].path = path /\ trace[i].stage = "crime" /\ trace[i].note = "fallback"

\* the stages of getQualityOfLife and analyzeValue
LaterStages == {"transport", "amenities", "entertainment", "walk", "similar", "rating", "history"}

\* the path whose AnalysisResponse the variable analysis holds
CurrentPath ==
    IF pc \in {"analyze/geocode", "analyze/gardai", "analyze/lighting", "analyze/crime",
               "analyze/score"} \/ (pc = "done" /\ arg.route = "analyze")
    THEN "analyze" ELSE "enrich"

\* C7: once enrichPropertyInfo returns from a run whose geocoding succeeded,
\* every stage of getQualityOfLife and analyzeValue has been attempted, whatever
\* failed before it, crime stats included; and crime stats, on the
\* enrichPropertyInfo path and on the analyzeSafety path alike, has been
\* attempted exactly when the garda search and the lighting query before it
\* succeeded, so no failure of transport, amenities, entertainment or price
\* analysis keeps it from running.
C7_StagesIsolated ==
    /\ (pc = "enrich/return" /\ Succeeded("enrich", "geocode")) =>
          /\ \A s \in LaterStages : Attempted("enrich", s)
          /\ Attempted("enrich", "crime") <=>
                (Succeeded("enrich", "gardai") /\ Succeeded("enrich", "lighting"))
    /\ (pc = "done" /\ arg.route = "analyze") =>
          (Attempted("analyze", "crime") <=>
              (Succeeded("analyze", "gardai") /\ Succeeded("analyze", "lighting")))

C7_Witness ==
    /\ pc = "done" /\ arg.route = "analyze"
    /\ Succeeded("enrich", "geocode")
    /\ Failed("enrich", "crime") /\ Failed("enrich", "transport")
    /\ Failed("enrich", "amenities") /\ Failed("enrich", "entertainment")
    /\ Failed("enrich", "similar") /\ Attempted("enrich", "history")
    /\ Failed("analyze", "crime")

\* the counts of the cube of CrimeRuns
CellCounts == {RTrunc(Count(r, y)) : r \in 0..(MaxRegions + 1), y \in 0..(MaxYears + 1)}

\* C8: a failed stage leaves its fields zero. After a failed station search
\* PublicTransport is empty and TransportScore is 0; after a failed crime-stat
\* resolution the CrimeStats total, per-capita and breakdown and the
\* SafetyScore are zero, and so are the CrimeRate and SafetyRating of the
\* property on the enrichPropertyInfo path. Non-zero CrimeStats come from a
\* resolution that succeeded: a cell of the cube with no breakdown, or the
\* zero-dimension fallback (total 500, three breakdown entries).
C8_FailedStageLeavesZero ==
    /\ Failed("enrich", "transport") =>
          (property.PublicTransport = <<>> /\ property.TransportScore = 0)
    /\ Failed(CurrentPath, "crime") =>
          (analysis.CrimeStats = CrimeStatsZero /\ analysis.SafetyScore = 0)
    /\ Failed("enrich", "crime") =>
          (property.CrimeRate = RZero /\ property.SafetyRating = 0)
    /\ analysis.CrimeStats # CrimeStatsZero =>
          /\ Succeeded(CurrentPath, "crime")
          /\ IF FellBack(CurrentPath)
             THEN analysis.CrimeStats.Total = 500 /\ Len(analysis.CrimeStats.Breakdown) = 3
             ELSE analysis.CrimeStats.Total \in CellCounts /\ analysis.CrimeStats.Breakdown = <<>>

C8_Witness ==
    /\ pc = "done" /\ arg.route = "analyze"
    /\ Failed("enrich", "transport")
    /\ Succeeded("enrich", "crime") /\ FellBack("enrich") /\ property.CrimeRate # RZero
    /\ Failed("analyze", "crime")
    /\ Succeeded("analyze", "gardai") /\ analysis.NearbyGardai # <<>>

\* a resolution that read a cell of the cube
C8_CellRead ==
    /\ pc = "done" /\ Succeeded(CurrentPath, "crime") /\ ~FellBack(CurrentPath)
    /\ analysis.CrimeStats.Total # 0 /\ analysis.SafetyScore # 0

(***************************************************************************)
(* C11: when both station searches answer with the same single station,    *)
(* which has no category types, findPublicTransport returns no error and   *)
(* leaves exactly one entry in PublicTransport, with an empty Type.        *)
(***************************************************************************)
C11_SameStation ==
    /\ pc = "transport:ret"
    /\ env.search["train_station"] = env.search["bus_station"]
    /\ ~env.search["train_station"].err
    /\ Len(C4_Trains) = 1
    /\ C4_Trains[1].Types = <<>>

C11_SingleEntry ==
    C11_SameStation =>
        /\ ~ret.err
        /\ Len(property.PublicTransport) = 1
        /\ property.PublicTransport[1].Type = ""

\* what the code leaves: the station once per search, both with an empty Type
C11_BothAnswersKept ==
    C11_SameStation =>
        /\ ~ret.err
        /\ Len(property.PublicTransport) = 2
        /\ \A i \in 1..2 : property.PublicTransport[i].Type = ""

(***************************************************************************)
(* AddressSlugger: extractLocationFromAddress, slugify                     *)
(***************************************************************************)
MaxSegments == 3

\* strings.Split(s, sep) for a one-character sep
RECURSIVE Split(_, _)
Split(s, sep) ==
    IF \E i \in 1..Len(s) : s[i] = sep
    THEN LET i == CHOOSE j \in 1..Len(s) : s[j] = sep /\ \A k \in 1..(j - 1) : s[k] # sep
         IN  <<SubSeq(s, 1, i - 1)>> \o Split(SubSeq(s, i + 1, Len(s)), sep)
    ELSE <<s>>

\* strings.TrimPrefix
TrimPrefix(s, p) == IF HasPrefix(s, p) THEN SubSeq(s, Len(p) + 1, Len(s)) ELSE s

\* the longest prefix of s without white space
RECURSIVE WordRun(_)
WordRun(s) ==
    IF s # <<>> /\ ~IsSpace(Head(s)) THEN <<Head(s)>> \o WordRun(Tail(s)) ELSE <<>>

\* strings.Fields
RECURSIVE Fields(_)
Fields(s) ==
    LET t == TrimLeft(s)
        w == WordRun(t)
    IN  IF t = <<>> THEN <<>>
        ELSE <<w>> \o Fields(SubSeq(t, Len(w) + 1, Len(t)))

\* unicode.IsLetter, unicode.IsDigit on the characters the model uses
IsLetter(c) == \E i \in 1..26 : UpperLetters[i] = c \/ LowerLetters[i] = c

IsDigit(c) == c \in Digits

RECURSIVE KeepSlugChars(_)
KeepSlugChars(s) ==
    IF s = <<>> THEN <<>>
    ELSE (IF IsLetter(Head(s)) \/ IsDigit(Head(s)) \/ Head(s) = "-" THEN <<Head(s)>> ELSE <<>>)
             \o KeepSlugChars(Tail(s))

slugify(s) == KeepSlugChars(ToLower(TrimSpace(ReplaceAll(s, <<" ">>, <<"-">>))))

\* the non-empty segments of the address, trimmed and in lower case
RECURSIVE NonEmpty(_)
NonEmpty(parts) ==
    IF parts = <<>> THEN <<>>
    ELSE (IF Head(parts) # <<>> THEN <<Head(parts)>> ELSE <<>>) \o NonEmpty(Tail(parts))

filteredParts(addr) ==
    LET parts == Split(addr, ",")
    IN  NonEmpty([i \in 1..Len(parts) |-> ToLower(TrimSpace(parts[i]))])

\* the county segment without the prefixes "co." and "county"
countyStripped(county) ==
    TrimSpace(TrimPrefix(TrimPrefix(county, <<"c", "o", ".">>), <<"c", "o", "u", "n", "t", "y">>))

\* the first word of a county that holds a digit
countyTruncated(county) ==
    IF \E i \in 1..Len(county) : IsDigit(county[i]) THEN Fields(county)[1] ELSE county

extractLocationFromAddress(addr) ==
    LET filtered == filteredParts(addr)
        n        == Len(filtered)
        suburb   == IF n >= 2 THEN filtered[n - 1] ELSE <<>>
        county   == countyTruncated(countyStripped(filtered[n]))
    IN  IF n = 0 THEN <<>>
        ELSE slugify(suburb) \o <<"-">> \o slugify(county)

(***************************************************************************)
(* Specification SpecSlug: extractLocationFromAddress applied to an        *)
(* address of up to MaxSegments comma-separated segments                   *)
(***************************************************************************)
SegmentTexts ==
    { <<>>,
      <<" ">>,
      <<"X">>,
      <<" ", "Y">>,
      <<"R", "a", "n", "e", "l", "a", "g", "h">>,
      <<"1", "2", " ", "M", "a", "i", "n", " ", "S", "t">>,
      <<"C", "o", ".", " ", "D", "u", "b", "l", "i", "n">>,
      <<"C", "o", " ", "D", "u", "b", "l", "i", "n">>,
      <<"C", "o", "u", "n", "t", "y", " ", "D", "u", "b", "l", "i", "n">>,
      <<"D", "u", "b", "l", "i", "n", " ", "9">>,
      <<"C", "o", ".", " ", "D", "u", "b", "l", "i", "n", " ", "9">>,
      <<"C", "o", "r", "k">> }

RECURSIVE Join(_, _)
Join(parts, sep) ==
    IF parts = <<>> THEN <<>>
    ELSE IF Len(parts) = 1 THEN parts[1]
    ELSE parts[1] \o sep \o Join(Tail(parts), sep)

Addresses == {Join(parts, <<",">>) : parts \in BoundedSeq(SegmentTexts, MaxSegments)}

MainStAddress == <<"1", "2", " ", "M", "a", "i", "n", " ", "S", "t", ",", " ", "R", "a", "n", "e", "l", "a", "g", "h", ",", " ", "C", "o", ".", " ", "D", "u", "b", "l", "i", "n">>

DublinNineAddress == <<"X", ",", " ", "Y", ",", " ", "D", "u", "b", "l", "i", "n", " ", "9">>

InitSlug ==
    /\ pc = "slug:call"
    /\ arg \in Addresses \cup {MainStAddress, DublinNineAddress}
    /\ ret = NoValue
    /\ property = PropertyZero
    /\ analysis = AnalysisZero
    /\ env = NoValue
    /\ trace = <<>>

ExtractLocation ==
    /\ pc = "slug:call"
    /\ pc' = "slug:ret"
    /\ ret' = [value |-> extractLocationFromAddress(arg)]
    /\ UNCHANGED <<arg, property, analysis, env, trace>>

NextSlug == ExtractLocation

SpecSlug == InitSlug /\ [][NextSlug]_vars

\* the county of the statement: the prefixes "co." and "county" and a leading
\* word "co" removed, then cut to its first word if it holds a digit
C12_County(county) ==
    LET c == countyStripped(county)
        d == IF Fields(c) # <<>> /\ Fields(c)[1] = <<"c", "o">>
             THEN TrimSpace(TrimPrefix(c, <<"c", "o">>)) ELSE c
    IN  IF \E i \in 1..Len(d) : IsDigit(d[i]) THEN Fields(d)[1] ELSE d

(***************************************************************************)
(* C12: for an address with at least two non-empty segments,               *)
(* extractLocationFromAddress returns slug(second-to-last segment), "-",   *)
(* slug(last segment without a leading "co.", "co" or "county" and cut to  *)
(* its first word if it holds a digit).                                    *)
(***************************************************************************)
C12_SuburbCounty ==
    (pc = "slug:ret" /\ Len(filteredParts(arg)) >= 2) =>
        LET f == filteredParts(arg)
        IN  ret.value = slugify(f[Len(f) - 1]) \o <<"-">> \o slugify(C12_County(f[Len(f)]))

\* the two addresses of the statement
C12_Examples ==
    pc = "slug:ret" =>
        /\ arg = MainStAddress => ret.value = <<"r", "a", "n", "e", "l", "a", "g", "h", "-", "d", "u", "b", "l", "i", "n">>
        /\ arg = DublinNineAddress => ret.value = <<"y", "-", "d", "u", "b", "l", "i", "n">>

(***************************************************************************)
(* Specification SpecSimilar: findSimilarProperties against a given search *)
(* page: up to MaxAdverts adverts in the embedded JSON, which may fail to  *)
(* decode, and the result items of the HTML                                *)
(***************************************************************************)
MaxAdverts == 6

\* a monthly price, a weekly price only, no price, and an advert whose JSON
\* object has a price but neither displayAddress nor adPath
SimilarAdverts ==
    { [DisplayAddress |-> "A", Monthly |-> 1000, Weekly |-> 0, AdPath |-> "/share/a"],
      [DisplayAddress |-> "B", Monthly |-> 0, Weekly |-> 250, AdPath |-> "/share/b"],
      [DisplayAddress |-> "C", Monthly |-> 0, Weekly |-> 0, AdPath |-> "/share/c"],
      [DisplayAddress |-> "", Monthly |-> 900, Weekly |-> 0, AdPath |-> ""] }

SimilarItems ==
    { <<>>,
      <<Item(PriceText(9000))>>,
      <<Item(<<"P", "O", "A">>), Item(PriceText(8505)), [Item(PriceText(7000)) EXCEPT !.href = ""],
        [Item(PriceText(7500)) EXCEPT !.address = ""]>> }

SimilarPages ==
    [ err : {FALSE}, jsonOk : BOOLEAN, adverts : BoundedSeq(SimilarAdverts, MaxAdverts),
      items : SimilarItems ]
    \cup {[err |-> TRUE, jsonOk |-> FALSE, adverts |-> <<>>, items |-> <<>>]}

InitSimilar ==
    /\ pc = "similar:call"
    /\ arg = NoValue
    /\ ret = NoValue
    /\ property = ScrapedProperty
    /\ analysis = AnalysisZero
    /\ env \in [page : SimilarPages]
    /\ trace = <<>>

FindSimilar ==
    /\ pc = "similar:call"
    /\ pc' = "similar:ret"
    /\ LET r == findSimilarProperties(property, env.page)
       IN  /\ property' = r.property
           /\ ret' = [err |-> r.err]
    /\ UNCHANGED <<arg, analysis, env, trace>>

NextSimilar == FindSimilar

SpecSimilar == InitSimilar /\ [][NextSimilar]_vars

\* the listings the page delivers with a price: the adverts of the JSON, if it
\* decoded, then the items of the HTML, each list in its own order
C13_Delivered ==
    LET priced(ad) == ad.Monthly # 0 \/ ad.Weekly # 0
        ads   == IF env.page.jsonOk THEN SelectSeq(env.page.adverts, priced) ELSE <<>>
        valid(it) == it.href # "" /\ it.address # "" /\ extractPriceValue(it.priceTxt) # RZero
        its   == SelectSeq(env.page.items, valid)
    IN  [i \in 1..(Len(ads) + Len(its)) |->
            IF i <= Len(ads) THEN ads[i].DisplayAddress ELSE its[i - Len(ads)].address]

(***************************************************************************)
(* C13: after findSimilarProperties returns, Similar holds at most 5       *)
(* entries: the first min(5, n) of the n listings kept, in the order the   *)
(* page delivered them.                                                    *)
(***************************************************************************)
C13_FirstFive ==
    (pc = "similar:ret" /\ ~ret.err) =>
        /\ Len(property.Similar) <= 5
        /\ Len(property.Similar) = min(5, Len(C13_Delivered))
        /\ \A i \in 1..Len(property.Similar) :
              property.Similar[i].Address = C13_Delivered[i]

\* six or more listings kept, of which only the first five stay
C13_Witness ==
    /\ pc = "similar:ret" /\ ~ret.err
    /\ Len(C13_Delivered) >= 6
    /\ C13_Delivered[1] # C13_Delivered[6]
    /\ C13_Delivered[1] # C13_Delivered[2]
    /\ Len(property.Similar) = 5

(***************************************************************************)
(* PriceAnalyzer: the price band of the similar-listings search            *)
(***************************************************************************)
MaxBandTenths == 12500

\* math.Round: to the nearest integer, halves away from zero
RRound(a) ==
    IF a.n >= 0 THEN (2 * a.n + a.d) \div (2 * a.d)
    ELSE -((2 * (-a.n) + a.d) \div (2 * a.d))

roundToNearest50_Down(value) == RMul(RInt(RTrunc(RDiv(value, RInt(50)))), RInt(50))

roundToNearest50(value) == RMul(RInt(RRound(RDiv(value, RInt(50)))), RInt(50))

\* minPrice and maxPrice of the search URL
searchPriceBand(p) ==
    LET basePrice == extractPriceValue(p.RentPrice)
    IN  [ min |-> roundToNearest50(RMul(basePrice, Rat(8, 10))),
          max |-> roundToNearest50(RMul(basePrice, Rat(12, 10))) ]

(***************************************************************************)
(* Specification SpecBand: the price band of a listing whose rent is given *)
(* in tenths, and roundToNearest50 of the rent itself                      *)
(***************************************************************************)
InitBand ==
    /\ pc = "band:call"
    /\ arg \in [tenths : 0..MaxBandTenths]
    /\ ret = NoValue
    /\ property = [PropertyZero EXCEPT !.RentPrice = PriceText(arg.tenths)]
    /\ analysis = AnalysisZero
    /\ env = NoValue
    /\ trace = <<>>

ComputeBand ==
    /\ pc = "band:call"
    /\ pc' = "band:ret"
    /\ ret' = [ band    |-> searchPriceBand(property),
                rounded |-> roundToNearest50(Rat(arg.tenths, 10)) ]
    /\ UNCHANGED <<arg, property, analysis, env, trace>>

NextBand == ComputeBand

SpecBand == InitBand /\ [][NextBand]_vars

\* m is x rounded to a multiple of 50, halves away from zero (x >= 0)
C14_Round50(x, m) ==
    /\ m.d = 1 /\ m.n % 50 = 0
    /\ RGeq(x, RInt(m.n - 25))
    /\ RLt(x, RInt(m.n + 25))

(***************************************************************************)
(* C14: the band of a base price is min = round50(0.8 base) and            *)
(* max = round50(1.2 base), round50 rounding to the nearest multiple of 50 *)
(* with halves away from zero: the band of 1000 is 800 to 1200,            *)
(* round50(1025) = 1050 and round50(1024) = 1000; both bounds are          *)
(* multiples of 50 and min <= max.                                         *)
(***************************************************************************)
C14_PriceBand ==
    pc = "band:ret" =>
        LET base == Rat(arg.tenths, 10)
        IN  /\ C14_Round50(RMul(base, Rat(8, 10)), ret.band.min)
            /\ C14_Round50(RMul(base, Rat(12, 10)), ret.band.max)
            /\ C14_Round50(base, ret.rounded)
            /\ ret.band.min.n <= ret.band.max.n
            /\ arg.tenths = 10000 => ret.band = [min |-> RInt(800), max |-> RInt(1200)]
            /\ arg.tenths = 10250 => ret.rounded = RInt(1050)
            /\ arg.tenths = 10240 => ret.rounded = RInt(1000)

\* the rent 1025 lies half way between 1000 and 1050 and is rounded up
C14_Witness ==
    /\ pc = "band:ret"
    /\ arg.tenths = 10250
    /\ ret.rounded = RInt(1050)
    /\ ret.band = [min |-> RInt(800), max |-> RInt(1250)]

\* every enumeration order of the dimension map gives the outcome of this run
C15_SameOutcome ==
    \A o \in fetchStatsOutcomes(env.lookup.division, arg.year, env.resp) :
        o.err = ret.out.err /\ o.stats = ret.out.stats

C15_UnambiguousDeterministic ==
    (pc = "crime:ret" /\ ret.via = "fetchStats" /\ arg.shape # NoShape) =>
        ((/\ C6_Recognisable(arg.shape)
          /\ arg.shape.extra => regionLabel(ToLower(arg.shape.rs.label)))
            => C15_SameOutcome)

(***************************************************************************)
(* calculateDistance: the haversine formula in floating point.             *)
(* float64 is modelled by a binary format with FloatBits significant bits, *)
(* every product and sum rounded to nearest, ties to even, as IEEE 754     *)
(* does. math.Sin and math.Cos are given by their values: Sin is odd and   *)
(* Sin(0) = 0.                                                             *)
(***************************************************************************)
FloatBits == 3

\* the integer nearest to a >= 0, ties to even
RoundHalfEven(a) ==
    LET q == a.n \div a.d
        r == a.n % a.d
    IN  IF 2 * r > a.d \/ (2 * r = a.d /\ q % 2 = 1) THEN q + 1 ELSE q

\* a >= 0 rounded to FloatBits significant bits
RECURSIVE FlAbs(_)
FlAbs(a) ==
    IF a.n = 0 THEN a
    ELSE IF a.n >= (2 ^ FloatBits) * a.d THEN RMul(FlAbs(RDiv(a, RInt(2))), RInt(2))
    ELSE IF a.n < (2 ^ (FloatBits - 1)) * a.d THEN RDiv(FlAbs(RMul(a, RInt(2))), RInt(2))
    ELSE RInt(RoundHalfEven(a))

Fl(a) == IF a.n < 0 THEN RSub(RZero, FlAbs(RSub(RZero, a))) ELSE FlAbs(a)

\* x * y and x + y in floating point
FMul(x, y) == Fl(RMul(x, y))

FAdd(x, y) == Fl(RAdd(x, y))

\* earthRadiusKm * 2 * atan2(sqrt(a), sqrt(1 - a)), kept by the a it is computed
\* from: it is 0 for a = 0 and grows with a
arcLength(a) == [R |-> 6371, a |-> a]

\* the sines of the half differences and the cosines of the latitudes of a
\* call; trig gives Sin of half the latitude (longitude) step between the two
\* grid lines and Cos of each latitude
halfSine(from, to, step) ==
    IF to > from THEN step ELSE IF to < from THEN RSub(RZero, step) ELSE RZero

\* src/main.go: sin(dLat/2)^2 + sin(dLon/2)^2 * cos(lat1) * cos(lat2)
calculateDistance(p1, p2, trig) ==
    LET sLat == halfSine(p1.lat, p2.lat, trig.sinLat)
        sLon == halfSine(p1.lon, p2.lon, trig.sinLon)
        a    == FAdd(FMul(sLat, sLat),
                     FMul(FMul(FMul(sLon, sLon), trig.cos[p1.lat]), trig.cos[p2.lat]))
    IN  arcLength(a)

\* src/main_test.go: sin(dLat/2)^2 + cos(lat1) * cos(lat2) * sin(dLng/2)^2
calculateDistanceKm(p1, p2, trig) ==
    LET sLat == halfSine(p1.lat, p2.lat, trig.sinLat)
        sLng == halfSine(p1.lon, p2.lon, trig.sinLon)
        a    == FAdd(FMul(sLat, sLat),
                     FMul(FMul(FMul(trig.cos[p1.lat], trig.cos[p2.lat]), sLng), sLng))
    IN  arcLength(a)

(***************************************************************************)
(* Specification SpecDistance: the distance between two points of a grid   *)
(* of two latitudes and two longitudes, in both directions                 *)
(***************************************************************************)
\* the floating-point numbers in [1/4, 1]
FloatValues ==
    {Rat(m, 2 ^ e) : m \in (2 ^ (FloatBits - 1))..(2 ^ FloatBits - 1),
                     e \in (FloatBits + 1)..(FloatBits + 2)} \cup {RInt(1)}

GridPoints == [lat : 1..2, lon : 1..2]

InitDistance ==
    /\ pc = "distance:call"
    /\ arg \in [p1 : {[lat |-> 1, lon |-> 1]}, p2 : GridPoints]
    /\ ret = NoValue
    /\ property = PropertyZero
    /\ analysis = AnalysisZero
    /\ env \in [sinLat : FloatValues, sinLon : FloatValues, cos : [1..2 -> FloatValues]]
    /\ trace = <<>>

CallDistance ==
    /\ pc = "distance:call"
    /\ pc' = "distance:ret"
    /\ ret' = [ there  |-> calculateDistance(arg.p1, arg.p2, env),
                back   |-> calculateDistance(arg.p2, arg.p1, env),
                self   |-> calculateDistance(arg.p2, arg.p2, env),
                thereKm |-> calculateDistanceKm(arg.p1, arg.p2, env),
                backKm  |-> calculateDistanceKm(arg.p2, arg.p1, env),
                selfKm  |-> calculateDistanceKm(arg.p2, arg.p2, env) ]
    /\ UNCHANGED <<arg, property, analysis, env, trace>>

NextDistance == CallDistance

SpecDistance == InitDistance /\ [][NextDistance]_vars

C16_SelfZero ==
    pc = "distance:ret" => (ret.self = arcLength(RZero) /\ ret.selfKm = arcLength(RZero))

\* the function of src/main_test.go, which multiplies the two cosines first, is
\* symmetric
C16_KmSymmetric ==
    pc = "distance:ret" => ret.thereKm = ret.backKm

\* the stages of the resolver, in order
C17_StageOrder ==
    <<"division", "fetch", "schema", "keys", "region", "year", "value", "percapita">>

\* the stage at which a run with the given error ended
C17_FailedStage(err) ==
    CASE err = "nodivision" -> "division"
      [] err = "upstream"   -> "fetch"
      [] err = "schema"     -> "keys"
      [] err = "noregion"   -> "region"
      [] err = "noyear"     -> "year"
      [] err = "range"      -> "value"

(***************************************************************************)
(* C17: a run of GetCrimeStats goes through division lookup, cube fetch,   *)
(* schema check, key resolution, region match, year match, value           *)
(* extraction and per-capita in this order and ends in one outcome: the    *)
(* first stage that fails ends the run with its error and no later stage   *)
(* runs (no fetch after a failed division lookup), and CrimeStats are      *)
(* returned exactly when there is no error.                                *)
(***************************************************************************)
C17_StagesInOrder ==
    (pc = "crime:ret" /\ ret.via = "GetCrimeStats") =>
        LET o == ret.out
            n == Len(o.stages)
        IN  /\ n >= 1 /\ n <= Len(C17_StageOrder)
            /\ o.stages = SubSeq(C17_StageOrder, 1, n)
            /\ (o.err = "") <=> ~o.stats.nil
            /\ o.err # "" => (o.stages[n] = C17_FailedStage(o.err) /\ o.stats = NoStats)
            /\ o.err = "" => n \in {3, Len(C17_StageOrder)}
            /\ env.lookup.err <=> o.err = "nodivision"
            /\ env.lookup.err => o.stages = <<"division">>
            /\ (~env.lookup.err /\ env.resp.err) <=> o.err = "upstream"

\* the division lookup failed although the cube could have been fetched
C17_Witness ==
    /\ pc = "crime:ret" /\ ret.via = "GetCrimeStats"
    /\ env.lookup.err /\ ~env.resp.err
    /\ DOMAIN env.resp.cube.Dimension # {}
    /\ ret.out.stages = <<"division">>

\* a run ended by the year match
C17_YearMatchEnds ==
    /\ pc = "crime:ret" /\ ret.via = "GetCrimeStats"
    /\ ret.out.err = "noyear"
    /\ ret.out.stages = SubSeq(C17_StageOrder, 1, 6)

\* the dimension keys the label heuristic (the key-name heuristic) accepts
C18_ByLabel(isLabel(_)) ==
    {k \in DOMAIN env.resp.cube.Dimension : isLabel(ToLower(env.resp.cube.Dimension[k].Label))}

C18_ByKeyName(isKeyName(_)) == {k \in DOMAIN env.resp.cube.Dimension : isKeyName(k)}

\* the key a run ended with, given the keys each heuristic accepts
C18_TierOrder(key, byLabel, byKeyName) ==
    /\ byLabel # {} => key \in byLabel
    /\ (byLabel = {} /\ byKeyName # {}) => key \in byKeyName
    /\ (byLabel = {} /\ byKeyName = {}) =>
          IF Cardinality(DOMAIN env.resp.cube.Dimension) >= 2
          THEN key \in DOMAIN env.resp.cube.Dimension
          ELSE key = <<>>

\* a run of fetchStats that resolved the keys
C18_Resolved ==
    /\ pc = "crime:ret"
    /\ ret.via = "fetchStats"
    /\ Len(ret.out.stages) >= 3
    /\ ret.out.stages[3] = "keys"

(***************************************************************************)
(* C18: the region key (the year key) is one the label heuristic accepts   *)
(* if there is any; else one the key-name heuristic accepts if there is    *)
(* any; else a dimension taken by position if the cube has at least two    *)
(* dimensions, and unresolved otherwise. When both keys are taken by       *)
(* position they are the first and the second dimension enumerated.        *)
(***************************************************************************)
C18_EarlierTierWins ==
    C18_Resolved =>
        /\ C18_TierOrder(ret.out.regionKey, C18_ByLabel(regionLabel), C18_ByKeyName(regionKeyName))
        /\ C18_TierOrder(ret.out.yearKey, C18_ByLabel(yearLabel), C18_ByKeyName(yearKeyName))
        /\ (/\ C18_ByLabel(regionLabel) = {} /\ C18_ByKeyName(regionKeyName) = {}
            /\ C18_ByLabel(yearLabel) = {} /\ C18_ByKeyName(yearKeyName) = {}
            /\ Cardinality(DOMAIN env.resp.cube.Dimension) >= 2)
               => ret.out.regionKey # ret.out.yearKey

\* the label names the region dimension while the key-name heuristic accepts
\* another dimension, and the year key is found by its name only
C18_Witness ==
    /\ C18_Resolved
    /\ C18_ByLabel(regionLabel) = {ret.out.regionKey}
    /\ C18_ByKeyName(regionKeyName) # {}
    /\ ret.out.regionKey \notin C18_ByKeyName(regionKeyName)
    /\ C18_ByLabel(yearLabel) = {}
    /\ ret.out.yearKey \in C18_ByKeyName(yearKeyName)

\* both keys taken by position
C18_ByPosition ==
    /\ C18_Resolved
    /\ C18_ByLabel(regionLabel) = {} /\ C18_ByKeyName(regionKeyName) = {}
    /\ C18_ByLabel(yearLabel) = {} /\ C18_ByKeyName(yearKeyName) = {}
    /\ ret.out.regionKey # <<>> /\ ret.out.yearKey # <<>>

\* a run of fetchStats, directly or from GetCrimeStats, that decoded a cube
\* with at least one dimension
C19_CubeWithDimensions ==
    /\ pc = "crime:ret"
    /\ ret.out.err # "nodivision"
    /\ ~env.resp.err
    /\ DOMAIN env.resp.cube.Dimension # {}

\* no tier can give the key: no label and no key name is accepted, and the
\* cube has fewer than two dimensions to take by position
C19_Unresolvable(isLabel(_), isKeyName(_)) ==
    /\ C18_ByLabel(isLabel) = {}
    /\ C18_ByKeyName(isKeyName) = {}
    /\ Cardinality(DOMAIN env.resp.cube.Dimension) < 2

C19_SomeKeyUnresolvable ==
    \/ C19_Unresolvable(regionLabel, regionKeyName)
    \/ C19_Unresolvable(yearLabel, yearKeyName)

\* the stages of the run, without the division lookup of GetCrimeStats
C19_FetchStages ==
    IF ret.via = "GetCrimeStats" THEN Tail(ret.out.stages) ELSE ret.out.stages

(***************************************************************************)
(* C19: for a cube with at least one dimension whose region key or year    *)
(* key no tier can resolve, the run fails with the schema error carrying   *)
(* the attempted keys (the unresolved one empty), returns no CrimeStats,   *)
(* and stops after the key check: no region or year is matched. A cube     *)
(* with dimensions whose keys both resolve never fails with that error.    *)
(***************************************************************************)
C19_SchemaMismatch ==
    C19_CubeWithDimensions =>
        /\ C19_SomeKeyUnresolvable =>
              /\ ret.out.err = "schema"
              /\ ret.out.stats.nil
              /\ ret.out.stats # fallbackStats(env.lookup.division)
              /\ C19_FetchStages = <<"fetch", "schema", "keys">>
              /\ ret.out.regIdx = -1 /\ ret.out.yrIdx = -1
              /\ C19_Unresolvable(regionLabel, regionKeyName) <=> ret.out.regionKey = <<>>
              /\ C19_Unresolvable(yearLabel, yearKeyName) <=> ret.out.yearKey = <<>>
        /\ ~C19_SomeKeyUnresolvable => ret.out.err # "schema"

\* the only dimension is recognised as the region, no year key can be found
C19_Witness ==
    /\ C19_CubeWithDimensions
    /\ ret.via = "fetchStats"
    /\ Cardinality(DOMAIN env.resp.cube.Dimension) = 1
    /\ ret.out.regionKey \in DOMAIN env.resp.cube.Dimension
    /\ ret.out.yearKey = <<>>
    /\ ret.out.err = "schema"

\* a cube with one dimension recognised as both region and year passes the check
C19_OneDimensionResolved ==
    /\ C19_CubeWithDimensions
    /\ Cardinality(DOMAIN env.resp.cube.Dimension) = 1
    /\ ret.out.regionKey = ret.out.yearKey
    /\ ret.out.regionKey # <<>>
    /\ ret.out.err # "schema"

\* a run of fetchStats that came to match the division: both keys name a dimension
C20_Matching ==
    /\ pc = "crime:ret"
    /\ ret.via = "fetchStats"
    /\ ~env.resp.err
    /\ ret.out.regionKey \in DOMAIN env.resp.cube.Dimension
    /\ ret.out.yearKey \in DOMAIN env.resp.cube.Dimension

C20_RegionDim == env.resp.cube.Dimension[ret.out.regionKey]

C20_Target == normalize(env.lookup.division)

\* the normalised label of the category at position i (from 1) of the region dimension
C20_LabelAt(i) == normalize(catLabel(C20_RegionDim, C20_RegionDim.Index[i]))

\* the positions whose label equals the target or contains it
C20_Accepted ==
    {i \in 1..Len(C20_RegionDim.Index) :
        C20_LabelAt(i) = C20_Target \/ Contains(C20_LabelAt(i), C20_Target)}

(***************************************************************************)
(* C20: the category matched is the one of lowest index whose normalised   *)
(* label equals the normalised division or contains it, whether or not a   *)
(* later label equals it exactly; when no category is accepted the run     *)
(* fails with the no-match error after the region stage and returns no     *)
(* CrimeStats, and it fails so in no other case.                           *)
(***************************************************************************)
C20_FirstMatchWins ==
    C20_Matching =>
        /\ C20_Accepted = {} =>
              /\ ret.out.err = "noregion"
              /\ ret.out.stats.nil
              /\ ret.out.stages = <<"fetch", "schema", "keys", "region">>
              /\ ret.out.regIdx = -1
        /\ C20_Accepted # {} =>
              /\ ret.out.err # "noregion"
              /\ ret.out.regIdx + 1 \in C20_Accepted
              /\ \A j \in C20_Accepted : ret.out.regIdx + 1 <= j

\* the first label only contains the target, a later one equals it
C20_Witness ==
    /\ C20_Matching
    /\ ret.out.regIdx = 0
    /\ C20_LabelAt(1) # C20_Target
    /\ \E j \in C20_Accepted : j > 1 /\ C20_LabelAt(j) = C20_Target

\* no category is accepted
C20_NoMatch ==
    /\ C20_Matching
    /\ C20_Accepted = {}
    /\ ret.out.err = "noregion"

\* the category matched is not the first of the dimension
C20_LaterCategory ==
    /\ C20_Matching
    /\ ret.out.regIdx > 0

\* a run of fetchStats that found the region and the year and came to the value
C21_AtValue ==
    /\ C20_Matching
    /\ ret.out.regIdx >= 0
    /\ ret.out.yrIdx >= 0

\* the flattened index, from the cube and the indexes the run found
C21_Index ==
    ret.out.regIdx * Len(env.resp.cube.Dimension[ret.out.yearKey].Index) + ret.out.yrIdx

C21_Valid == C21_Index >= 0 /\ C21_Index < Len(env.resp.cube.Value)

(***************************************************************************)
(* C21: the value vector is never read outside its bounds. A run that      *)
(* came to the value stage fails with the out-of-range error and returns   *)
(* no CrimeStats exactly when regionIndex * yearCategoryCount + yearIndex  *)
(* is not a position of the vector; a run that returns a result from the   *)
(* cube has 0 <= index < length(values) and returns the integer part of    *)
(* the value at that index. No run panics.                                 *)
(***************************************************************************)
C21_ReadInBounds ==
    /\ (pc = "crime:ret" => ret.out.err # "panic")
    /\ C21_AtValue =>
          /\ ~C21_Valid <=> ret.out.err = "range"
          /\ ret.out.err = "range" => ret.out.stats.nil
          /\ C21_Valid =>
                /\ ret.out.err = ""
                /\ ret.out.stats.Total = RTrunc(env.resp.cube.Value[C21_Index + 1])
    /\ (pc = "crime:ret" /\ ret.out.err = "range") => C21_AtValue \/ ret.via = "GetCrimeStats"

\* the index is exactly the length of the value vector: one past its end
C21_Witness ==
    /\ C21_AtValue
    /\ C21_Index = Len(env.resp.cube.Value)
    /\ ret.out.err = "range"
    /\ ret.out.stats.nil

\* the last position of the vector is read
C21_LastCell ==
    /\ C21_AtValue
    /\ C21_Index = Len(env.resp.cube.Value) - 1
    /\ ret.out.err = ""

\* a run of fetchStats that returned a result read from the cube
C22_FromCube ==
    /\ C21_AtValue
    /\ ret.out.err = ""

\* the label of the category the run matched, as the cube spells it
C22_MatchedLabel == catLabel(C20_RegionDim, C20_RegionDim.Index[ret.out.regIdx + 1])

\* the population table of the claim
C22_Population(label) ==
    IF label = <<"D", ".", "M", ".", "R", ".", " ", "N", "o", "r", "t", "h", "e", "r", "n", " ", "D", "i", "v", "i", "s", "i", "o", "n">> THEN 180000
    ELSE IF label = <<"D", ".", "M", ".", "R", ".", " ", "N", "o", "r", "t", "h", " ", "C", "e", "n", "t", "r", "a", "l", " ", "D", "i", "v", "i", "s", "i", "o", "n">> THEN 300000
    ELSE IF label = <<"D", ".", "M", ".", "R", ".", " ", "S", "o", "u", "t", "h", "e", "r", "n", " ", "D", "i", "v", "i", "s", "i", "o", "n">> THEN 200000
    ELSE IF label = <<"D", ".", "M", ".", "R", ".", " ", "S", "o", "u", "t", "h", " ", "C", "e", "n", "t", "r", "a", "l", " ", "D", "i", "v", "i", "s", "i", "o", "n">> THEN 280000
    ELSE IF label = <<"D", ".", "M", ".", "R", ".", " ", "E", "a", "s", "t", "e", "r", "n", " ", "D", "i", "v", "i", "s", "i", "o", "n">> THEN 260000
    ELSE IF label = <<"D", ".", "M", ".", "R", ".", " ", "W", "e", "s", "t", "e", "r", "n", " ", "D", "i", "v", "i", "s", "i", "o", "n">> THEN 220000
    ELSE 100000

(***************************************************************************)
(* C22: a result read from the cube has PerCapita = Total divided by the   *)
(* population of the matched region label, the population being the table *)
(* entry of the six named divisions and 100000 for any other label, hence  *)
(* positive; its Breakdown is the empty sequence.                          *)
(***************************************************************************)
C22_PerCapita ==
    C22_FromCube =>
        /\ ~ret.out.stats.nil
        /\ C22_Population(C22_MatchedLabel) > 0
        /\ ret.out.stats.PerCapita.d > 0
        /\ ret.out.stats.PerCapita.n * C22_Population(C22_MatchedLabel)
               = ret.out.stats.Total * ret.out.stats.PerCapita.d
        /\ ret.out.stats.Breakdown = <<>>

\* a label outside the table is matched by a shorter division name
C22_Witness ==
    /\ C22_FromCube
    /\ env.lookup.division = Kerry
    /\ C22_MatchedLabel = KerryGarda
    /\ ret.out.stats.Total > 0
    /\ ret.out.stats.PerCapita.n * 100000 = ret.out.stats.Total * ret.out.stats.PerCapita.d

\* each division of the table is matched in some run
C22_TableEntry(label) == C22_FromCube /\ C22_MatchedLabel = label /\ ret.out.stats.Total > 0

C22_NorthCentral == C22_TableEntry(DMR_NorthCentral)

C22_Western == C22_TableEntry(DMR_Western)

\* the number of entries of a POI list closer than 1.0 km
C23_Within1km(pois) == Cardinality({i \in 1..Len(pois) : pois[i].Distance < 1000})

C23_TransportBonus(ts) == IF ts >= 7 THEN 10 ELSE IF ts >= 5 /\ ts < 7 THEN 5 ELSE 0

C23_Cap(n) == IF 5 * n < 25 THEN 5 * n ELSE 25

C23_Sum ==
    50 + C23_Cap(C23_Within1km(property.Amenities))
       + C23_Cap(C23_Within1km(property.Entertainment))
       + C23_TransportBonus(property.TransportScore)

(***************************************************************************)
(* C23: after calculateWalkScore, WalkScore = clamp(50 + min(5A, 25) +     *)
(* min(5E, 25) + T, 0, 100), A and E counting the amenities and the        *)
(* entertainment venues closer than 1.0 km, T being 10 for a transport     *)
(* score of 7 or more, 5 for one from 5 up to 7, and 0 below 5.            *)
(***************************************************************************)
C23_WalkScoreFormula ==
    pc = "walk:ret" =>
        property.WalkScore = (IF C23_Sum < 0 THEN 0 ELSE IF C23_Sum > 100 THEN 100 ELSE C23_Sum)

\* a venue at exactly 1.0 km is not counted, the entertainment term is capped,
\* the transport score is in the middle band
C23_Witness ==
    /\ pc = "walk:ret"
    /\ Len(property.Amenities) = 3
    /\ C23_Within1km(property.Amenities) = 2
    /\ C23_Within1km(property.Entertainment) = 6
    /\ property.TransportScore = 5
    /\ property.WalkScore = 90

\* an entry of Similar with a price, an address and the path of its listing
C24_Complete(sp) ==
    /\ RGt(sp.Price, RZero)
    /\ sp.Address # ""
    /\ sp.URL[2] # ""

(***************************************************************************)
(* C24: every entry kept in Similar has a price greater than 0, a          *)
(* non-empty address and a non-empty listing url, whichever path of the    *)
(* search page it came from.                                               *)
(***************************************************************************)
C24_KeptAreComplete ==
    (pc = "similar:ret" /\ ~ret.err) =>
        \A i \in 1..Len(property.Similar) : C24_Complete(property.Similar[i])

\* every entry kept has a price other than 0, on both paths
C24_KeptArePriced ==
    (pc = "similar:ret" /\ ~ret.err) =>
        \A i \in 1..Len(property.Similar) : property.Similar[i].Price # RZero

\* the entries taken from the HTML items are complete: Similar is complete
\* whenever the embedded JSON gave nothing
C24_HtmlPathComplete ==
    (pc = "similar:ret" /\ ~ret.err /\ (~env.page.jsonOk \/ env.page.adverts = <<>>)) =>
        \A i \in 1..Len(property.Similar) : C24_Complete(property.Similar[i])

\* the HTML path met an item without address, one without link and one
\* without price, and kept the priced one
C24_HtmlDiscards ==
    /\ pc = "similar:ret" /\ ~ret.err
    /\ ~env.page.jsonOk
    /\ Len(env.page.items) = 4
    /\ Len(property.Similar) = 1

\* the value analysis has run calculateAreaAveragePrice and calculatePriceRating
C25_Rated == Attempted("enrich", "rating")

(***************************************************************************)
(* C25: when no similar listing was kept, the value analysis leaves        *)
(* AreaAveragePrice at 0 and PriceRating at 0; PriceRating is written only *)
(* with a non-zero AreaAveragePrice, and before the two functions ran      *)
(* both fields are 0.                                                      *)
(***************************************************************************)
C25_NoSimilarNoRating ==
    /\ (C25_Rated /\ property.Similar = <<>>) =>
          (property.AreaAveragePrice = RZero /\ property.PriceRating = 0)
    /\ property.PriceRating # 0 => (C25_Rated /\ property.AreaAveragePrice # RZero)
    /\ (C25_Rated /\ property.AreaAveragePrice # RZero) => property.PriceRating \in 1..10
    /\ ~C25_Rated => property.AreaAveragePrice = RZero

\* the search page was fetched but none of its listings had a price
C25_Witness ==
    /\ C25_Rated
    /\ Succeeded("enrich", "similar")
    /\ property.Similar = <<>>
    /\ property.AreaAveragePrice = RZero
    /\ property.PriceRating = 0

\* listings were kept and the rating was written
C25_RatingWritten ==
    /\ C25_Rated
    /\ property.Similar # <<>>
    /\ property.PriceRating \in 1..10

(***************************************************************************)
(* C26: for an address with fewer than two non-empty comma-separated       *)
(* segments extractLocationFromAddress returns the single segment in lower *)
(* case with only its letters, digits and hyphens, without any separator   *)
(* added, and the empty string when there is no non-empty segment.         *)
(***************************************************************************)
C26_SingleSegment ==
    (pc = "slug:ret" /\ Len(filteredParts(arg)) < 2) =>
        ret.value = (IF filteredParts(arg) = <<>> THEN <<>>
                     ELSE slugify(filteredParts(arg)[1]))

\* without a non-empty segment the result is empty
C26_NoSegment ==
    (pc = "slug:ret" /\ filteredParts(arg) = <<>>) => ret.value = <<>>

\* with one non-empty segment the result starts with the separator, and holds
\* only lower-case letters, digits and hyphens
C26_LeadingSeparator ==
    (pc = "slug:ret" /\ Len(filteredParts(arg)) = 1) =>
        /\ Head(ret.value) = "-"
        /\ \A i \in 1..Len(ret.value) :
              \/ ret.value[i] = "-"
              \/ IsDigit(ret.value[i])
              \/ (IsLetter(ret.value[i]) /\ ToLower(<<ret.value[i]>>) = <<ret.value[i]>>)

\* the address is the single segment Cork
C26_Cork ==
    /\ pc = "slug:ret"
    /\ arg = <<"C", "o", "r", "k">>
    /\ ret.value = <<"-", "c", "o", "r", "k">>

\* a run of fetchStats that passed the key check
C27_PastKeyCheck ==
    /\ pc = "crime:ret"
    /\ ~env.resp.err
    /\ ret.out.regionKey \in DOMAIN env.resp.cube.Dimension
    /\ ret.out.yearKey \in DOMAIN env.resp.cube.Dimension

(***************************************************************************)
(* C27: whenever fetchStats proceeds past the key check, the region key    *)
(* and the year key name two different dimensions of the cube.             *)
(***************************************************************************)
C27_DistinctKeys ==
    C27_PastKeyCheck => ret.out.regionKey # ret.out.yearKey

\* the keys differ when the label or the key name tells the region dimension
\* and the year dimension of a generated cube apart
C27_DistinctWhenRecognisable ==
    (C27_PastKeyCheck /\ arg.shape # NoShape /\ C6_Recognisable(arg.shape)) =>
        ret.out.regionKey # ret.out.yearKey

\* one dimension taken as both region and year in a cube with two dimensions
C27_SharedOfTwo ==
    /\ C27_PastKeyCheck
    /\ Cardinality(DOMAIN env.resp.cube.Dimension) = 2
    /\ ret.out.regionKey = ret.out.yearKey

\* a year dimension labelled "Period by Region" is taken for the region as
\* well, under every enumeration order, when the region dimension has a
\* label without a region word
C27_PeriodByRegion ==
    (/\ pc = "crime:ret" /\ ret.via = "fetchStats"
     /\ arg.shape # NoShape
     /\ arg.shape.rs.label = <<"C", "r", "i", "m", "e">>
     /\ arg.shape.ys.label = <<"P", "e", "r", "i", "o", "d", " ", "b", "y", " ", "R", "e", "g", "i", "o", "n">>) =>
        /\ ret.out.regionKey = arg.shape.ys.key
        /\ ret.out.yearKey = arg.shape.ys.key
        /\ ret.out.err = "noregion"

\* a getCoordinates call of the request succeeded before the i-th step logged
C28_GeocodedBefore(i) ==
    \E j \in 1..(i - 1) : trace[j].stage = "geocode" /\ trace[j].ok

(***************************************************************************)
(* C28: in every request path, a safety, quality-of-life or value stage is *)
(* started only after getCoordinates has succeeded in that request.        *)
(***************************************************************************)
C28_StagesAfterGeocode ==
    \A i \in 1..Len(trace) : trace[i].stage # "geocode" => C28_GeocodedBefore(i)

\* the stages of enrichPropertyInfo are started only after its own
\* getCoordinates call succeeded
C28_EnrichAfterGeocode ==
    \A i \in 1..Len(trace) :
        (trace[i].path = "enrich" /\ trace[i].stage # "geocode") =>
            \E j \in 1..(i - 1) :
                trace[j].path = "enrich" /\ trace[j].stage = "geocode" /\ trace[j].ok

\* an /analyze request in which both getCoordinates calls failed and the
\* garda search of analyzeSafety ran on the zero coordinates
C28_AnalyzeWithoutCoordinates ==
    /\ arg.route = "analyze"
    /\ \A i \in 1..Len(trace) : trace[i].stage = "geocode" => ~trace[i].ok
    /\ Attempted("analyze", "gardai")
    /\ property.Coordinates = [Lat |-> 0, Lng |-> 0]

\* getSafetyInfo ran to its end
C29_SafetyInfoSucceeded == Succeeded("enrich", "score")

(***************************************************************************)
(* C29: whenever getSafetyInfo succeeds, the SafetyRating it stores is     *)
(* SafetyScore / 10 in integer division and lies in 1..10. The lighting    *)
(* rating is one of 4, 6, 8, 10, every SafetyScore computed lies in        *)
(* 68..100, so the stored rating is at least 6 and the clamp at 1 is never *)
(* applied.                                                                *)
(***************************************************************************)
C29_RatingInRange ==
    /\ analysis.LightingRating \in {0, 4, 6, 8, 10}
    /\ analysis.SafetyScore # 0 =>
          /\ analysis.LightingRating \in {4, 6, 8, 10}
          /\ analysis.SafetyScore \in 68..100
          /\ analysis.SafetyScore =
                70 + 5 * Len(analysis.SafetyFactors) - 10 * Len(analysis.RiskFactors)
                   + 2 * analysis.LightingRating
    /\ C29_SafetyInfoSucceeded =>
          /\ property.SafetyRating \in 1..10
          /\ property.SafetyRating \in 6..10
    /\ (C29_SafetyInfoSucceeded /\ pc = "qol/transport") =>
          property.SafetyRating = analysis.SafetyScore \div 10
    /\ ~C29_SafetyInfoSucceeded => property.SafetyRating = 0

\* the lowest score: no garda station, the lowest lighting rating, a crime
\* rate above the threshold
C29_Witness ==
    /\ C29_SafetyInfoSucceeded
    /\ pc = "qol/transport"
    /\ analysis.LightingRating = 4
    /\ analysis.NearbyGardai = <<>>
    /\ analysis.RiskFactors # <<>>
    /\ analysis.SafetyScore = 68
    /\ property.SafetyRating = 6

\* the highest score
C29_Highest ==
    /\ C29_SafetyInfoSucceeded
    /\ analysis.SafetyScore = 100
    /\ property.SafetyRating = 10

(***************************************************************************)
(* Specification SpecListingRating: calculatePriceRating applied to a      *)
(* listing whose price text is any text of PriceTexts, against an area     *)
(* average                                                                 *)
(***************************************************************************)
InitListingRating ==
    /\ pc = "listing:call"
    /\ arg \in [text : PriceTexts, avg : AvgPrices]
    /\ ret = NoValue
    /\ property = [PropertyZero EXCEPT !.RentPrice = arg.text, !.AreaAveragePrice = arg.avg]
    /\ analysis = AnalysisZero
    /\ env = NoValue
    /\ trace = <<>>

RateListing ==
    /\ pc = "listing:call"
    /\ pc' = "listing:ret"
    /\ property' = calculatePriceRating(property)
    /\ ret' = [price |-> extractPriceValue(property.RentPrice)]
    /\ UNCHANGED <<arg, analysis, env, trace>>

NextListingRating == RateListing

SpecListingRating == InitListingRating /\ [][NextListingRating]_vars

\* a text without any digit
C30_NoDigit(text) == \A i \in 1..Len(text) : text[i] \notin {"0", "1", "2", "3", "4", "5", "6", "7", "8", "9"}

(***************************************************************************)
(* C30: whenever AreaAveragePrice > 0 and the listing's own price text     *)
(* parses to 0, calculatePriceRating sets PriceRating to 10; a price text  *)
(* without a digit is such a text.                                         *)
(***************************************************************************)
C30_UnpricedRatedBest ==
    pc = "listing:ret" =>
        /\ C30_NoDigit(arg.text) => ret.price = RZero
        /\ (RGt(arg.avg, RZero) /\ ret.price = RZero) => property.PriceRating = 10

\* a price text of letters only against an average of 100
C30_Witness ==
    /\ pc = "listing:ret"
    /\ arg.text = <<"p", "p">>
    /\ arg.avg = RInt(100)
    /\ ret.price = RZero
    /\ property.PriceRating = 10

\* a text with digits that still parses to 0: the digits follow a letter
C30_DigitsAfterLetter ==
    /\ pc = "listing:ret"
    /\ arg.text = <<"p", "1", "2">>
    /\ RGt(arg.avg, RZero)
    /\ property.PriceRating = 10

====
